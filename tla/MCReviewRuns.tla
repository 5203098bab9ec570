---------------------------- MODULE MCReviewRuns ----------------------------
(* The worlds in which TLC runs ReviewRuns.                                  *)
EXTENDS ReviewRuns

CONSTANTS p1, p2, p3, p4, m1, m2, a1, b1

MCLine == [c \in Comment |-> IF c = b1 THEN "line b" ELSE "line a"]
MCFile == [c \in Comment |-> Root(IF c = b1 THEN "README.md" ELSE "main.go")]

OneKey  == [r \in Run |-> "pull request"]
OwnKeys == [r \in Run |-> CASE r = p1 -> "1" [] r = p2 -> "2" [] r = m1 -> "3" [] OTHER -> "4"]
ByExecutor == [r \in Run |-> IF r = p2 THEN "server" ELSE "job"]

Quiet ==
    [runs |-> {}, remarks |-> {}, key |-> OneKey, screening |-> {}, draft |-> {}, flaky |-> {}, mortal |-> {},
     workspace |-> FALSE, merges |-> FALSE, adapters |-> <<>>, autobump |-> {},
     paths |-> {Root("main.go")}, edits |-> 0, replies |-> 0]

\* Pushes and a mention one after the other, triage beside them.
Serial ==
    [Quiet EXCEPT !.runs = {p1, p2, p3, p4, m1}, !.remarks = {a1, b1}, !.key = ByExecutor,
                  !.screening = {p2}, !.draft = {p4}, !.mortal = {p1},
                  !.workspace = TRUE, !.merges = TRUE, !.adapters = <<"docs_only">>,
                  !.paths = {Root("main.go"), Root("README.md")}, !.edits = 1]

\* The calls of the push and of the first mention fail.
FailingCalls ==
    [Quiet EXCEPT !.runs = {p1, m1, m2}, !.remarks = {a1}, !.flaky = {p1, m1}, !.replies = 2]

\* In-process, nothing keeps a mention apart from a push or another mention.
Beside == [Quiet EXCEPT !.runs = {p1, m1, m2}, !.remarks = {a1}, !.key = OwnKeys]

\* The dedup record lapses while its review runs.
Lapsed == [Quiet EXCEPT !.runs = {p1, p2}, !.remarks = {a1}, !.key = OwnKeys, !.mortal = {p1}]

\* A new pull request, and which detectors look at it.
Bumping ==
    {Root("CHANGELOG.md"), Root("changelog.md"), Root("README.md"), Root("package.json"),
     Root("go.mod"), Root("VERSION"), [nested |-> TRUE, base |-> "__init__.py"],
     [nested |-> TRUE, base |-> "CHANGELOG.md"]}
Adapters ==
    << <<"docs_only", "update_go", "update_node">>,
       <<"bump_go", "update_node", "docs_only">>,
       <<"update_node", "bump_node">>,
       <<"bump_python", "bump_node", "unknown", "update_python">> >>
Autobump ==
    << {},
       {[go |-> {Root("VERSION")}, python |-> {},
         typescript |-> {Root("package.json"), Root("VERSION")}]} >>
Detecting ==
    [i \in 1..8 |->
        [Quiet EXCEPT !.runs = {p1}, !.flaky = {p1}, !.paths = Bumping, !.merges = TRUE,
                      !.adapters = Adapters[(i + 1) \div 2], !.autobump = Autobump[1 + (i % 2)]]]

MCWorlds == <<Serial, FailingCalls, Beside, Lapsed>> \o Detecting
MCSerial == <<[Quiet EXCEPT !.runs = {p1, p2}, !.remarks = {a1}, !.edits = 1]>>
=============================================================================
