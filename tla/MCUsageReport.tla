---------------------------- MODULE MCUsageReport ----------------------------
(* Instances of UsageReport for TLC.  The counters of a set of digests      *)
(* differ from those of every other set.                                    *)
EXTENDS UsageReport

MCModel == [text  |-> <<"luna", "nano", "unknown">>,
            image |-> <<"nano", "", "luna">>]

MCPrice == [luna |-> [input |-> 20, cached |-> 2, output |-> 120],
            nano |-> [input |-> 5, cached |-> 1, output |-> 40]]
MCPicturePrice == [mini |-> [text |-> 200, image |-> 250, output |-> 800]]

Used(ti, tc, to, ii, ic, io, pt, pi, po) ==
  [c \in Counters |->
     CASE c[1] = "text"  -> CASE c[2] = "input" -> ti [] c[2] = "cached" -> tc
                              [] OTHER -> to
       [] c[1] = "image" -> CASE c[2] = "input" -> ii [] c[2] = "cached" -> ic
                              [] OTHER -> io
       [] OTHER          -> CASE c[2] = "text" -> pt [] c[2] = "image" -> pi
                              [] OTHER -> po]

\* A long request with an image; a short one without an image and with more
\* cached tokens than tokens; one of a model without a price.
MCTokens == <<Used(8, 1, 2, 1, 0, 1, 1, 0, 2), Used(2, 4, 0, 0, 0, 0, 0, 0, 0),
              Used(16, 0, 4, 2, 1, 2, 2, 1, 1)>>
=============================================================================
