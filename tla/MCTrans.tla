------------------------------ MODULE MCTrans ------------------------------
EXTENDS TransProperties
(* The sizes the driver asks for, and three others.                        *)
DriverSizes == { [M |-> 32, N |-> 32], [M |-> 64, N |-> 64],
                 [M |-> 61, N |-> 67] }
OtherSizes  == { [M |-> 67, N |-> 61], [M |-> 4, N |-> 4], [M |-> 1, N |-> 1] }

TestSizes == DriverSizes \cup OtherSizes

(* A and B are 256 KB each.  The small globals follow them: all in one     *)
(* block but func_list; in blocks that fall on the same set; and each in a *)
(* block of its own.                                                       *)
Layout(start, end, list, atN, atM) ==
  [x \in {"A", "B", "MARKER_START", "MARKER_END", "func_list", "N", "M"} |->
     CASE x = "A" -> 0
       [] x = "B" -> 2 ^ 18
       [] x = "MARKER_START" -> 2 ^ 19 + start
       [] x = "MARKER_END" -> 2 ^ 19 + end
       [] x = "func_list" -> 2 ^ 19 + list
       [] x = "N" -> 2 ^ 19 + atN
       [] x = "M" -> 2 ^ 19 + atM]

LinkerLayouts == { Layout(0, 1, 64, 8, 12),
                   Layout(992, 993, 2016, 1000, 1004),
                   Layout(32, 64, 96, 128, 160) }
============================================================================
