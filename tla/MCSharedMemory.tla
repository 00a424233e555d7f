--------------------------- MODULE MCSharedMemory ---------------------------
(***************************************************************************)
(* Two clones of one repository with remotes of different depth, and what  *)
(* their harnesses remember: a fact, another one with the same beginning,  *)
(* one that is too long for a row, and a preference.                       *)
(***************************************************************************)
EXTENDS SharedMemory

Clones == {"a", "b"}
Remotes == [a |-> [override |-> <<>>, remote |-> <<"owner", "repo">>, name |-> <<"repo">>],
            b |-> [override |-> <<>>, remote |-> <<"mirror", "owner", "repo">>, name |-> <<"fork">>]]

Fact == [kind |-> "decision", text |-> <<"same", "one", "">>]
Other == [kind |-> "decision", text |-> <<"same", "two", "">>]
Long == [kind |-> "decision", text |-> <<"same", "long", "tail">>]
Taste == [kind |-> "workstyle", text |-> <<"same", "taste", "">>]
Memories == {Fact, Other, Long, Taste}

Remember(batchOf) == [op |-> "remember", batch |-> batchOf]
Asked == {Remember(<<Fact>>), Remember(<<Other, Fact>>), Remember(<<Long>>),
          Remember(<<Taste>>), [op |-> "search", query |-> "same"]}

Line(method, version, id, sound) ==
  [method |-> method, version |-> version, caps |-> version = "modern", sound |-> sound,
   id |-> id, wellFormed |-> TRUE]

\* Both handshakes, each with a malformed first request, and a call of either kind.
Lines == {
  Line("initialize", "none", TRUE, TRUE), Line("initialize", "none", TRUE, FALSE),
  Line("notifications/initialized", "none", FALSE, TRUE),
  Line("server/discover", "modern", TRUE, TRUE), Line("server/discover", "other", TRUE, TRUE),
  Line("tools/call", "none", TRUE, TRUE), Line("tools/call", "modern", TRUE, TRUE)}

=============================================================================
