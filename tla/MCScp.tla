-------------------------------- MODULE MCScp --------------------------------
(***************************************************************************)
(* Instances of Scp for TLC: a tree with a file longer than the buffer and *)
(* a directory below the first, and one with the entries that are no files *)
(* to copy.                                                                *)
(***************************************************************************)
EXTENDS Scp

TheKind == [r |-> "dir", f |-> "file", d |-> "dir", e |-> "file",
            q |-> "dir", h |-> "file", o |-> "other", l |-> "link"]
TheEntries == [r |-> {"f", "d"}, d |-> {"e"}, q |-> {"h", "o", "l"}]
TheSize == [f |-> 3, e |-> 0, h |-> 1]

Job(server, flags, node, recurse, rename, peer) ==
    [server |-> server, flags |-> flags, path |-> TRUE, node |-> node,
     recurse |-> recurse, rename |-> rename, name |-> "n", peer |-> peer]

TheJobs == {
    Job("sink", MakeScpCmd("t"), "f", FALSE, TRUE, "wolf"),
    Job("source", MakeScpCmd("f"), "f", FALSE, FALSE, "wolf"),
    Job("source", <<"r", "p", "f">>, "r", TRUE, FALSE, "wolf"),
    Job("source", <<"p", "f">>, "h", FALSE, FALSE, "wolf"),
    Job("sink", <<"r", "t">>, "r", TRUE, TRUE, "wolf"),
    Job("source", <<"r", "f">>, "q", TRUE, FALSE, "wolf"),
    Job("source", <<"r", "f">>, "l", TRUE, FALSE, "wolf"),
    Job("source", MakeScpCmd("f"), "l", FALSE, FALSE, "wolf"),
    Job("source", <<"r">>, "r", TRUE, FALSE, "wolf"),
    Job("sink", <<"p">>, "h", FALSE, FALSE, "wolf"),
    Job("sink", MakeScpCmd("t"), "r", FALSE, FALSE, "any")}

TheUnits == {Line("D", "a", 0), Line("D", "bad", 0), Line("E", None, 0), Line("T", None, 0),
             Line("T", None, -1), Line("C", "a", 0), Line("C", "b", 1), Line("C", "b", -1),
             Line("junk", None, 0), Ok, Unit("f", 1), Closed}
==============================================================================
