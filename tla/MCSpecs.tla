-------------------------------- MODULE MCSpecs --------------------------------
(* Two names, one whose slug is empty, an empty one and one that is too long. A *)
(* slug is free for another spec once its first owner is renamed. The numbers   *)
(* and buffers users send are legal ones, and one beyond each bound, to create  *)
(* and to update.                                                               *)
EXTENDS Specs, TLC

Ids == Permutations(Id)

Ada == [text |-> "Ada", slug |-> "ada"]
Bob == [text |-> "Bob", slug |-> "bob"]
Long == [text |-> "long", slug |-> "long"]
Names == {Ada, Bob, Long, [text |-> "!", slug |-> ""], [text |-> "", slug |-> ""]}
LongNames == {Long}

MCNumbers ==
  {<<1, 0, 0>>, <<0, 0, 0>>, <<17, 0, 0>>, <<1, -1, 0>>, <<1, 17, 0>>, <<1, 0, -1>>, <<1, 0, 257>>}
MCNumbersChange ==
  {<<Absent, Absent, Absent>>, <<1, Absent, Absent>>}
  \cup {<<n, Absent, Absent>> : n \in {0, 17}} \cup {<<Absent, n, Absent>> : n \in {-1, 17}}
  \cup {<<Absent, Absent, n>> : n \in {-1, 257}}

None == <<Absent>>
MCBuffers == {<<<<>>, <<0>>>>, <<<<0, 0>>, <<>>>>, <<<<>>, <<0, 0>>>>}
MCBuffersChange == {<<None, None>>, <<None, <<0>>>>, <<<<0, 0>>, None>>, <<None, <<0, 0>>>>}
================================================================================
