------------------------------- MODULE MCSweep -------------------------------
(***************************************************************************)
(* Two sources, with stems of their own or one in common.  The first       *)
(* compiles with one of two versions of the headers only.  The second has  *)
(* two versions: one has a function, of the same name as the first         *)
(* source's, for which bpf-tv needs longer than the cap; the other has     *)
(* none.                                                                   *)
(***************************************************************************)
EXTENDS Sweep

C(c, v) == [of |-> c, version |-> v]
F(c, v) == [of |-> c, text |-> v]

MCLayouts == {<<1, 2>>, <<1, 1>>}
MCContents == {C(1, 1), C(2, 1), C(2, 2)}
MCFiles == {F(1, 1), F(2, 1), F(2, 2)}
MCClang == [c \in MCContents |-> [h \in Headers |->
  IF c = C(1, 1) /\ h = "new" THEN NoFile ELSE F(c.of, c.version)]]
MCDefines == [f \in MCFiles |-> IF f = F(2, 2) THEN << >> ELSE <<"f">>]
MCNeeds == [f \in MCFiles |-> IF f = F(2, 1) THEN 2 ELSE 1]
=============================================================================
