------------------------------ MODULE MCContent -----------------------------
(***************************************************************************)
(* Content values of the four accessor shapes: Flags only (STA, and the   *)
(* exported maps of GenericContent), Maybe fields read raw (MSG, QUI, SCH, *)
(* INF), required plus Maybe fields read stripped (RES), and the same      *)
(* fields with a guarded NamedGet (the generated RES).  The client touches *)
(* a typed key of each (PM, ID, TR), a required one (FN) and a free key    *)
(* (ZZ).                                                                   *)
(***************************************************************************)
EXTENDS Content

MCKinds == {"STA", "Generic", "MSG", "QUI", "SCH", "INF", "RES", "GenRES"}
MCTouch == {"PM", "ID", "TR", "FN", "ZZ"}
MCValues == {"v1", ZERO}
MCFlagValues == {<<"x">>}
=============================================================================
