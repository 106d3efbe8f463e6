------------------------------ MODULE MCDesktop -----------------------------
(* Configurations, sizes and menus for the run of Desktop. *)
EXTENDS Desktop

CONSTANTS a, b

Config(server, api, close, saved) ==
    [server |-> server, api |-> api, exitProcessOnClose |-> close, useSavedState |-> saved]

\* The defaults; an application that decides itself; one without the API; one
\* without a server and without saved state.
MCConfigs == {Config(TRUE, TRUE, TRUE, TRUE), Config(TRUE, TRUE, FALSE, TRUE),
              Config(TRUE, FALSE, FALSE, TRUE), Config(FALSE, FALSE, FALSE, FALSE)}

MCConfigured == [size |-> 1, place |-> "configured"]

\* A menu with room left, one that fails half-way, one longer than the array,
\* none.
MCRequests == {<<a>>, <<b, Bad>>, <<b, a, b>>, NoItems}
=============================================================================
