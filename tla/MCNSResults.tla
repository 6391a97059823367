----------------------------- MODULE MCNSResults -----------------------------
(***************************************************************************)
(* Small instances of NSResults for TLC.                                   *)
(***************************************************************************)
EXTENDS NSResults

CONSTANTS s1, s2

MCSavers == {s1, s2}

Answers(csv, xml) ==
  [f \in Formats |-> CASE f = "csv" -> csv [] f = "xml" -> xml [] OTHER -> ""]

(* Two formats saved at the end of a scan, or none.                        *)
MCInis == {Answers("OK", "OK"), Answers("NO", "")}

MCOneIni == {Answers("OK", "")}

Symmetry == Permutations(MCSavers)
=============================================================================
