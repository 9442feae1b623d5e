---------------------------- MODULE MCComponents ----------------------------
(* Components that share no state are checked in one run: a behaviour is about *)
(* one of them, the topic, and the others stay in their initial state.  The    *)
(* states of the components add up and do not multiply.                        *)
EXTENDS SessionService, Attachments, ModelSelection, ProviderStream, Cancellation,
        Permissions, UserConfiguration, WorkspaceFiles, ToolResults,
        RuntimeLink, InstructionScopes, RunawayDetector, DesktopReads, HistoryPages

CONSTANTS a1, a2, p1, p2, m1

VARIABLE topic

LOCAL INSTANCE TLC

----------------------------------------------------------------------------
(* Values of the constants.                                                    *)
MCProjectOf == (a1 :> p1) @@ (a2 :> p2)
MCMessages == {<<"reasoning", "text", "call">>, <<"call", "call">>, <<"text", "call", "text">>}

(* Actions: two files of a directory outside the project, one at a root, one   *)
(* inside, one of a sensitive name and a catastrophic command.  Files: none, a *)
(* strict one, one that contradicts it, and a malformed one.                   *)
MCAction(t, e, s, p) ==
  [tool |-> t, effect |-> e, scope |-> s, resource |-> p, breaker |-> FALSE, sensitive |-> FALSE]
MCActions ==
  {MCAction("ReadFile", "read", "outside", <<"o", "f">>), MCAction("ReadFile", "read", "outside", <<"o", "g">>),
   MCAction("ReadFile", "read", "outside", <<"r">>), MCAction("WriteFile", "write", "inside", <<"w", "f">>),
   [MCAction("ReadFile", "read", "inside", <<"w", "k">>) EXCEPT !.sensitive = TRUE],
   [MCAction("Bash", "destructive", "unknown", NoResource) EXCEPT !.breaker = TRUE]}
MCRule(k, d, t, e, p) ==
  [kind |-> k, decision |-> d, tool |-> t, effect |-> e, scope |-> Every, resource |-> p,
   prefix |-> p # Every, sensitive |-> FALSE]
MCFiles ==
  {{},
   {MCRule("guard", "allow", Every, "destructive", Every), MCRule("guard", "deny", Every, Every, <<"o", "g">>),
    MCRule("policy", "allow", "WriteFile", Every, Every)},
   {MCRule("policy", "ask", "ReadFile", Every, <<"o", "g">>), MCRule("policy", "ask", Every, "write", Every),
    MCRule("policy", "allow", Every, "write", Every)},
   {MCRule("guard", "allow", Every, Every, Every)}}

(* Two Providers and two models; settings that exchange names, move one, give  *)
(* a key or leave it out, delete what is in use and what is not; project files *)
(* that tighten, loosen, bring a model of their own, turn the search on and    *)
(* off, and have a blank profile; the user has no table for the search at first.*)
MCModel(p, w, i) == [provider |-> p, window |-> w, images |-> i, effort |-> FALSE]
MCFirstFile ==
  [default |-> "small", timeout |-> Absent, bytes |-> Absent, search |-> NoSearch,
   providers |-> ("a" :> [endpoint |-> "e1", key |-> "k1"]) @@ ("b" :> [endpoint |-> "e2", key |-> "k2"]),
   models |-> ("small" :> MCModel("a", 2, TRUE)) @@ ("large" :> [MCModel("b", Absent, Absent) EXCEPT !.effort = TRUE])]
MCPayload == [default |-> Absent, renames |-> <<>>, providers |-> <<>>, models |-> <<>>,
              timeout |-> Absent, bytes |-> Absent, search |-> NoSearch]
MCPayloads ==
  {[MCPayload EXCEPT !.renames = ("a" :> "b") @@ ("b" :> "a")],
   [MCPayload EXCEPT !.renames = "a" :> "c", !.providers = "c" :> [endpoint |-> "e2", key |-> Absent]],
   [MCPayload EXCEPT !.renames = ("c" :> "a") @@ ("b" :> "c")],
   [MCPayload EXCEPT !.providers = "b" :> Delete],
   [MCPayload EXCEPT !.models = "large" :> MCModel(Absent, 1, FALSE), !.timeout = 1, !.bytes = 1],
   [MCPayload EXCEPT !.search = [on |-> TRUE, limit |-> 1]],
   [MCPayload EXCEPT !.search = [on |-> FALSE, limit |-> Delete], !.models = "own" :> MCModel(Absent, Absent, TRUE)],
   [MCPayload EXCEPT !.models = "small" :> Delete, !.default = "large"],
   [MCPayload EXCEPT !.models = "large" :> Delete]}
MCProject == [default |-> Absent, models |-> <<>>, timeout |-> Absent, bytes |-> Absent, search |-> NoSearch]
MCTight == [MCProject EXCEPT !.models = "small" :> MCModel(Absent, 1, FALSE), !.timeout = 1, !.bytes = 1,
                             !.search = [on |-> FALSE, limit |-> 1]]
MCWide == [MCProject EXCEPT !.models = "small" :> MCModel(Absent, 2, TRUE), !.timeout = 2, !.bytes = 2,
                            !.search = [on |-> Absent, limit |-> 3]]
MCOwn == [MCProject EXCEPT !.default = "own", !.models = "own" :> MCModel("b", Absent, FALSE),
                           !.search = [on |-> TRUE, limit |-> Absent]]
MCDaring == [MCProject EXCEPT !.models = "large" :> MCModel("a", 3, Absent)]
MCBlank == [MCProject EXCEPT !.models = "small" :> MCModel(Absent, Absent, FALSE), !.search = [on |-> FALSE, limit |-> 2]]
MCChains == {<<>>, <<MCTight>>, <<MCTight, MCWide>>, <<MCOwn, MCWide>>, <<MCOwn>>, <<MCDaring>>, <<MCBlank>>}

(* Patches: an addition with a change, a move, and an addition with a deletion.*)
MCPatches ==
  {<<[kind |-> "update", path |-> "p"], [kind |-> "add", path |-> "q"]>>,
   <<[kind |-> "move", path |-> "p", to |-> "q"]>>,
   <<[kind |-> "add", path |-> "q"], [kind |-> "delete", path |-> "p"]>>}

(* Texts of narrow and wide code points, and of ones that JSON must escape.    *)
MCChar(b, j) == [bytes |-> b, json |-> j]
MCTexts ==
  {<<MCChar(1, 1), MCChar(3, 3), MCChar(1, 2), MCChar(2, 6)>>,
   <<MCChar(4, 4), MCChar(1, 1), MCChar(4, 4), MCChar(1, 1)>>,
   <<MCChar(1, 1), MCChar(1, 1)>>,
   <<MCChar(1, 6), MCChar(1, 1), MCChar(4, 4), MCChar(4, 4), MCChar(3, 3)>>}

(* A directory in another, whose AGENTS.md is included from outside as well, an *)
(* include that leads elsewhere, one of a missing file, and a cycle.           *)
MCText(t, r) == [read |-> "text", tag |-> t, refs |-> r]
MCUnread(how) == [read |-> how, tag |-> 0, refs |-> <<>>]
MCOuter == ("a" :> "project") @@ ("b" :> "project") @@ ("aa" :> "a")
MCRank == ("a" :> 1) @@ ("b" :> 2) @@ ("aa" :> 3)
MCFirstSources ==
  ("user" :> MCUnread("missing")) @@ ("project" :> MCText(0, <<"x">>)) @@ ("a" :> MCText(0, <<"y", "elsewhere">>))
  @@ ("b" :> MCText(0, <<>>)) @@ ("aa" :> MCText(0, <<>>)) @@ ("x" :> MCText(0, <<"project">>)) @@ ("y" :> MCText(0, <<"aa">>))
MCMayHold ==
  ("user" :> {}) @@ ("project" :> {MCText(0, <<"x", "aa">>)})
  @@ ("a" :> {MCText(0, <<>>), MCText(0, <<"y">>), MCText(1, <<>>)})
  @@ ("b" :> {MCUnread("unreadable")}) @@ ("aa" :> {MCText(1, <<>>)})
  @@ ("x" :> {MCText(0, <<>>), MCText(0, <<"aa">>)}) @@ ("y" :> {MCUnread("missing")})

(* Habits: one call or two that succeed, fail in two ways or are refused, and   *)
(* longer cycles, of which one has a run of three equal calls.                 *)
MCCall(a, r) == [action |-> a, result |-> r, failure |-> NoFailure, evidence |-> "none"]
MCFailing(r) == [MCCall("c", r) EXCEPT !.failure = "k"]
MCRefused(p) == [MCCall("final", p) EXCEPT !.evidence = "refused"]
MCHabits ==
  {<<MCCall("a", 1)>>, <<MCFailing(2)>>, <<MCRefused(1)>>}
  \cup {<<MCCall("a", 1), MCCall("b", 1)>>, <<MCCall("a", 1), MCFailing(2)>>, <<MCFailing(2), MCFailing(3)>>,
        <<MCCall("a", 1), MCRefused(1)>>, <<MCRefused(1), MCFailing(2)>>}
  \cup {<<MCCall("a", 1), MCCall("a", 1), MCCall("b", 1)>>,
        <<MCCall("a", 1), MCCall("b", 1), MCCall("b", 1), MCFailing(2)>>,
        <<MCCall("a", 1), MCCall("a", 1), MCCall("a", 1), MCCall("b", 1)>>,
        <<MCRefused(1), MCCall("a", 1), MCRefused(2)>>}
MCSurprises ==
  {MCCall("a", 1), MCCall("a", 2), [MCCall("b", 1) EXCEPT !.evidence = "read"], [MCCall("w", 1) EXCEPT !.evidence = "change"],
   [MCCall("p", 1) EXCEPT !.evidence = "idle"], MCFailing(2), MCRefused(2)}

\* Lines of one to three bytes, and ranges of entries of which one fills a page.
MCWidth == <<2, 1, 3, 2>>
MCRanges == {<<1, 2, 3, 1>>, <<7, 1, 1, 1, 1>>, <<2, 2>>}

\* The pure parts of the readers, over all small files and the ranges above.
ASSUME ReadersAreExact == LinesAreExact /\ RangesAreExact

\* Two registered projects with a Session each, and General mode.
MCOwnerOf == ("u" :> "P") @@ ("v" :> "Q")
MCLastUsed == ("u" :> 1) @@ ("v" :> 3)

----------------------------------------------------------------------------
(* The topics.  The components that have several initial states keep one of    *)
(* them when they are not the topic.                                           *)
Topics == {"sessions", "attachments", "models", "streams", "tokens", "permissions", "configuration",
           "files", "results", "link", "instructions", "loops", "reads", "pages"}

Init ==
  /\ topic \in Topics
  /\ ServiceInit /\ AttachmentInit /\ SelectionInit /\ StreamInit /\ TokenInit
  /\ PermissionInit /\ ConfigurationInit /\ FilesInit /\ ResultInit /\ LinkInit /\ InstructionInit
  /\ DetectorInit /\ ReadsInit /\ PagesInit
  /\ topic # "models" => model = m1
  /\ topic # "streams" => api = "chat" /\ meant = <<"call", "call">>
  /\ topic # "results" => session = "one"
  /\ topic # "loops" => habit = <<MCCall("a", 1)>>
  /\ ownerOfApp = [a \in {1} |-> "P"]
  /\ topic # "pages" => lines = <<>>

Only(t) ==
  /\ topic = t /\ UNCHANGED topic
  /\ t # "sessions" => UNCHANGED serviceVars
  /\ t # "attachments" => UNCHANGED attachmentVars
  /\ t # "models" => UNCHANGED selectionVars
  /\ t # "streams" => UNCHANGED streamVars
  /\ t # "tokens" => UNCHANGED tokenVars
  /\ t # "permissions" => UNCHANGED permissionVars
  /\ t # "configuration" => UNCHANGED configurationVars
  /\ t # "files" => UNCHANGED fileVars
  /\ t # "results" => UNCHANGED resultVars
  /\ t # "link" => UNCHANGED linkVars
  /\ t # "instructions" => UNCHANGED instructionVars
  /\ t # "loops" => UNCHANGED detectorVars
  /\ t # "reads" => UNCHANGED readsVars
  /\ t # "pages" => UNCHANGED pagesVars

Next ==
  \/ Only("sessions") /\ ServiceNext
  \/ Only("attachments") /\ AttachmentNext
  \/ Only("models") /\ SelectionNext
  \/ Only("streams") /\ StreamNext
  \/ Only("tokens") /\ TokenNext
  \/ Only("permissions") /\ PermissionNext
  \/ Only("configuration") /\ ConfigurationNext
  \/ Only("files") /\ FilesNext
  \/ Only("results") /\ ResultNext
  \/ Only("link") /\ LinkNext
  \/ Only("instructions") /\ InstructionNext
  \/ Only("loops") /\ DetectorNext
  \/ Only("reads") /\ ReadsNext
  \/ Only("pages") /\ PagesNext

vars == <<topic, serviceVars, attachmentVars, selectionVars, streamVars, tokenVars,
          permissionVars, configurationVars, fileVars, resultVars, linkVars, instructionVars, detectorVars, readsVars,
          pagesVars>>

Spec == Init /\ [][Next]_vars

----------------------------------------------------------------------------
(* What is read back later, an output that was too large or an older part of   *)
(* the conversation, is whole: result pages put together give the result, and  *)
(* history pages the history (tool_result_read.py 546, session_files.py 484).  *)
ReadBackIsWhole == ResultsAreReadable /\ PagesAreTheHistory
=============================================================================
