----------------------------- MODULE MCHarness -----------------------------
(* One file tool whose actions need different capabilities, one tool with a  *)
(* plain and a dotted capability and no map, one function only register()    *)
(* adds; a listed worker with an entry, one with a role only, one unlisted.  *)
EXTENDS Harness

MCWorkers == {"w", "x", "ghost"}
MCRoles == {"r", "s"}
MCCaps == {<<"file", "read">>, <<"file", "write">>, <<"net", "get">>}
MCGlobs == {"src", "keys"}
MCCapMap == [c \in {<<"read">>, <<"write">>} |-> <<"file">> \o c]
MCLimits == [max_tool_calls |-> 3, max_execution_time |-> 4, max_file_size |-> 2]
MCDurations == {1, 2}

MCSpecs ==
  "file" :> [action_capabilities |-> "read" :> <<<<"file", "read">>>>
               @@ "write" :> <<<<"file", "write">>>>
               @@ "move" :> <<<<"file", "read">>, <<"file", "write">>>>,
             capabilities |-> <<>>, permission_caps |-> <<>>,
             required |-> FALSE, deps |-> TRUE, loads |-> TRUE]
  @@ "fetch" :> [action_capabilities |-> None,
                 capabilities |-> <<<<"read">>, <<"net", "get">>>>, permission_caps |-> <<>>,
                 required |-> TRUE, deps |-> TRUE, loads |-> FALSE]

Path == [inside |-> TRUE, in_session |-> FALSE, forbidden |-> FALSE,
         in_denied_dir |-> FALSE, globs |-> {"src"}, size |-> 1]
Req == [tool |-> "file", action |-> "read", path |-> None, complete |-> TRUE,
        size |-> 0, who |-> None, allow |-> None]
MCRequests ==
  {Req, [Req EXCEPT !.who = "x"], [Req EXCEPT !.who = "", !.action = "move"],
   [Req EXCEPT !.action = "write", !.path = Path],
   [Req EXCEPT !.action = "write", !.who = "w", !.path = [Path EXCEPT !.globs = {"src", "keys"}]],
   [Req EXCEPT !.action = "move", !.path = [Path EXCEPT !.in_session = TRUE, !.globs = {"keys"}]],
   [Req EXCEPT !.who = "ghost", !.allow = {"file"}],
   [Req EXCEPT !.path = [Path EXCEPT !.in_denied_dir = TRUE]], [Req EXCEPT !.size = 9],
   [Req EXCEPT !.tool = "extra", !.path = Path, !.who = "w"],
   [Req EXCEPT !.tool = "fetch", !.action = ""], [Req EXCEPT !.action = "none", !.allow = {}]}

Entry(ts, cs, fs, ls) ==
  [enabled |-> TRUE, tools |-> ts, capabilities |-> cs, files |-> fs, limits |-> ls]
NoFiles == [op \in Ops |-> {}]
All(v) == [c \in MCCaps |-> v]

RoleEntries ==
  {Entry("file" :> "allow" @@ "extra" :> "ask", All("allow"),
         [NoFiles EXCEPT !["write"] = {"src"}, !["deny"] = {"keys"}], "max_tool_calls" :> 1),
   Entry("file" :> "ask" @@ "fetch" :> "allow", All("ask"),
         [NoFiles EXCEPT !["read"] = {"src"}], <<>>)}
WorkerEntries ==
  {Entry("file" :> "Deny?" @@ "extra" :> "allow", <<>>, NoFiles, "max_tool_calls" :> 2),
   Entry("file" :> "allow", <<"file", "write">> :> "ask",
         [NoFiles EXCEPT !["write"] = {"src"}], "max_execution_time" :> 2),
   [Entry(<<>>, <<>>, NoFiles, <<>>) EXCEPT !.enabled = FALSE]}

Table(we, re) ==
  [workers |-> (IF we = None THEN <<>> ELSE "w" :> we)
                @@ "default" :> Entry("file" :> "allow", All("allow"), NoFiles, <<>>),
   roles |-> IF re = None THEN <<>> ELSE "r" :> re]
MCSetups ==
  LET base == [roster |-> [w \in {"w", "x"} |-> IF w = "w" THEN "r" ELSE None],
               readable |-> TRUE, approver |-> TRUE, uses |-> {}, permissions |-> None]
      with(p, u) == [base EXCEPT !.permissions = p, !.uses = u]
  IN {with(Table(we, re), {"registers"}) :
        we \in WorkerEntries \cup {None}, re \in RoleEntries \cup {None}}
     \cup {with(Table(None, re), {"edits"}) : re \in RoleEntries}
     \cup {[with(Table(we, re), {}) EXCEPT !.approver = FALSE] :
             we \in WorkerEntries, re \in RoleEntries}
     \cup {base, with(Table(None, None), {"plans"}),
           [with(Table(None, None), {}) EXCEPT !.readable = FALSE]}

=============================================================================
