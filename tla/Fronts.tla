------------------------------- MODULE Fronts -------------------------------
(***************************************************************************)
(* What stands in front of a command or of a file: the proxy, which runs   *)
(* the command and shows what it makes of its output, its hook, and the    *)
(* pages that patch the configuration.  They share no state, so a          *)
(* behaviour works on one of them while the others rest.                   *)
(***************************************************************************)
EXTENDS Proxy, LayerPatch

VARIABLE system   \* what this behaviour works on

frontsVars == <<captureVars, filterVars, layerVars>>

FrontsInit == CaptureInit /\ FilterInit /\ LayerInit

FrontsNext ==
  \/ system = "capture" /\ CaptureNext /\ UNCHANGED <<filterVars, layerVars>>
  \/ system = "layers" /\ LayerNext /\ UNCHANGED <<captureVars, filterVars>>
  \/ /\ UNCHANGED <<captureVars, layerVars>>
     /\ \/ system = "lines" /\ PrintLine
        \/ system = "words" /\ TypeToken
        \/ system = "hooks" /\ (InitHook \/ UninitHook \/ UserAdds)

FrontsSpec == FrontsInit /\ [][UNCHANGED system /\ FrontsNext]_<<system, frontsVars>>
-----------------------------------------------------------------------------
(* What stands in front of a command or of a file hides nothing: the proxy  *)
(* reports all the command wrote, announces what it leaves out and runs the *)
(* command asked for; a page saves what it showed.                          *)
FrontsHonest ==
  /\ system = "capture" => CaptureHonest
  /\ system \in {"lines", "words", "hooks"} => FilterHonest
  /\ system = "layers" => PatchHonest
=============================================================================
