----------------------------- MODULE MCNeuServer ----------------------------
(* Model values for the runs of NeuServer. *)
EXTENDS NeuServer

CONSTANTS h1, h2, h3, e1

ThreeConns == {h1, h2, h3}
OneExt == {e1}
AllModes == {"window", "browser", "cloud", "chrome"}
JustCloud == {"cloud"}
=============================================================================
