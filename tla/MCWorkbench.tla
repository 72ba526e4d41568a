----------------------------- MODULE MCWorkbench -----------------------------
(* Instances of Workbench for TLC: pairs of requests that meet on some       *)
(* state, in both modes, each pair with the changes of the cluster that      *)
(* matter to it.                                                             *)
EXTENDS Workbench

Selected == [ns |-> Home, version |-> 2]
Reselected == [ns |-> Abroad, version |-> 2]
Outdated == [ns |-> Home, version |-> 3]

Nothing == [s \in Subjects |-> {}]
MCInitialGrants ==
    [Nothing EXCEPT ![<<"operator", Home>>] = Rules, ![<<LocalUser, Home>>] = Rules,
                    ![<<"viewer", Home>>] = {"observations.list"},
                    ![<<LocalUser, Abroad>>] = {"observations.list"}]

NoFact == [pod |-> 0, wl |-> 0, digest |-> 0]
Verified == [id |-> 21, uid |-> 21, readable |-> TRUE, bound |-> TRUE, image |-> 1, from |-> {1, 3},
             digest |-> 1, approved |-> 1, fact |-> [pod |-> 1, wl |-> 1, digest |-> 1]]
Draft == [Verified EXCEPT !.id = 22, !.uid = 22, !.from = {}, !.approved = 0, !.fact = NoFact]
Mixed == [Draft EXCEPT !.id = 25, !.uid = 25, !.from = {1, 2}]
Attempted(n) == [id |-> n, uid |-> n, source |-> 0, proposalName |-> 21, proposal |-> 21]
Undone == [Attempted(91) EXCEPT !.source = 81]
Foreign == [Draft EXCEPT !.id = 23, !.uid = 23, !.bound = FALSE]
Unreadable == [Draft EXCEPT !.id = 24, !.uid = 24, !.readable = FALSE]

Quiet == [pods |-> {}, workload |-> FALSE, proposals |-> FALSE, grants |-> {}, sessions |-> {},
          executor |-> FALSE]
Restart == [Quiet EXCEPT !.pods = {1}]
Rollout == [Quiet EXCEPT !.pods = {1}, !.workload = TRUE]
Decisions == [Quiet EXCEPT !.proposals = TRUE]
Roles(s, rule) == [Quiet EXCEPT !.grants = {<<s, rule>>}]

S(how, a, b, change) ==
    [mode |-> how, viaReplicaSet |-> TRUE, completed |-> TRUE, earlier |-> FALSE, proposals |-> {},
     attempts |-> {},
     inputs |-> [r \in Requests |-> IF r = "r1" THEN a ELSE b], turmoil |-> change]
Direct(s) == [s EXCEPT !.viaReplicaSet = FALSE]
Here(s) == [s EXCEPT !.turmoil.sessions = {"here"}]
Anywhere(s) == [s EXCEPT !.turmoil.sessions = {"here", "elsewhere"}]
Executed(s) == [s EXCEPT !.turmoil.executor = TRUE]
Running(s) == [s EXCEPT !.completed = FALSE]
Earlier(s) == [s EXCEPT !.earlier = TRUE]
Tried(s, as) == [s EXCEPT !.attempts = as]
With(s, ps) == [s EXCEPT !.proposals = ps]

Op(kind, header, pick, o) == Input(kind, "operator", header, Home, pick, o)
Viewer(kind, header, pick, o) == Input(kind, "viewer", header, Home, pick, o)
Local(kind, header, pick, o) == Input(kind, LocalUser, header, Home, pick, o)
Unknown == Input("apply", Stranger, NoHeader, Home, "none", 0)
Elsewhere(i) == [i EXCEPT !.body = Abroad]
Follow(i) == [i EXCEPT !.follow = TRUE]
Named(i, n) == [i EXCEPT !.uid = n]
Versioned(i) == [i EXCEPT !.versioned = TRUE]

MCScenarios ==
    {\* starting and stopping
     S("proxy", Op("start", NoHeader, "image", 0), Op("status", NoHeader, "none", 1), Restart),
     Direct(S("proxy", Op("workloads", NoHeader, "none", 0), Op("start", NoHeader, "image", 0), Rollout)),
     S("proxy", Op("workloads", NoHeader, "none", 0), Op("start", NoHeader, "target", 0), Rollout),
     Running(Here(S("proxy", Op("stop", Selected, "none", 1), Viewer("stop", Selected, "none", 1),
                    Roles(<<"operator", Home>>, "observations/status.update")))),
     Anywhere(S("proxy", Op("stop", NoHeader, "none", 1), Op("start", Outdated, "target", 0), Quiet)),
     Anywhere(S("proxy", Elsewhere(Op("start", NoHeader, "none", 0)), Elsewhere(Op("stop", Selected, "none", 1)), Quiet)),
     Executed(S("local", Local("start", NoHeader, "none", 0), Local("stop", NoHeader, "none", 2),
                [Restart EXCEPT !.grants = {<<<<LocalUser, Home>>, "observations.create">>}])),
     Executed(Here(S("local", Local("start", Selected, "target", 0), Local("stop", Selected, "none", 2), Quiet))),
     Here(S("local", Elsewhere(Local("stop", Reselected, "none", 1)), Local("start", Outdated, "none", 0), Quiet)),
     S("local", Elsewhere(Local("stop", NoHeader, "none", 1)), Elsewhere(Local("start", NoHeader, "none", 0)), Quiet),
     \* generating
     Executed(Running(S("proxy", Op("generate", NoHeader, "image", 1), Unknown, Restart))),
     Direct(S("proxy", Op("generate", NoHeader, "image", 1), Unknown, Rollout)),
     S("proxy", Op("generate", NoHeader, "target", 1), Viewer("generate", NoHeader, "image", 1),
       Roles(<<"viewer", Home>>, "proposals.create")),
     Executed(Running(S("local", Local("generate", NoHeader, "none", 1), Elsewhere(Local("status", NoHeader, "none", 1)),
                        Roles(<<LocalUser, Home>>, "proposals.create")))),
     With(S("local", Local("generate", NoHeader, "none", 1), Local("generate", NoHeader, "image", 1), Quiet),
          {[Draft EXCEPT !.id = 1]}),
     Here(S("local", Local("generate", NoHeader, "none", 3), Local("status", Selected, "none", 2),
            Roles(<<LocalUser, Home>>, "observations.list"))),
     \* shared discoveries
     S("proxy", Op("capabilities", NoHeader, "none", 0), Viewer("capabilities", NoHeader, "none", 0),
       Roles(<<"viewer", Home>>, "applyattempts.create")),
     S("proxy", Versioned(Op("apply", NoHeader, "none", 0)), Versioned(Viewer("rollback", NoHeader, "none", 0)),
       Roles(<<"operator", Home>>, "applyattempts.create")),
     Here(S("proxy", Op("apply", Selected, "none", 0), Versioned(Op("rollback", Selected, "none", 0)), Quiet)),
     Here(S("local", Versioned(Local("apply", NoHeader, "none", 0)), Local("capabilities", Selected, "none", 0), Quiet)),
     S("proxy", Unknown, Op("apply", NoHeader, "none", 0), Quiet),
     \* reading
     With(S("proxy", Op("projection", NoHeader, "none", 0), Op("detail", NoHeader, "none", 0), Restart),
          {Verified}),
     With(S("proxy", Op("detail", NoHeader, "target", 0), Op("workloads", NoHeader, "none", 0), Rollout), {}),
     With(S("proxy", Op("projection", NoHeader, "none", 0), Op("workloads", NoHeader, "none", 0), Decisions),
          {Verified, Foreign}),
     Here(S("local", Local("projection", Reselected, "none", 0), Local("workloads", Selected, "none", 0), Quiet)),
     With(S("local", Local("projection", NoHeader, "none", 0), Local("capabilities", NoHeader, "none", 0), Decisions),
          {Draft, Unreadable, Verified}),
     \* collections
     Earlier(S("proxy", Op("observations", NoHeader, "target", 0), Follow(Op("observations", NoHeader, "image", 0)), Quiet)),
     Earlier(Here(S("local", Local("observations", NoHeader, "target", 0),
                    Follow(Local("observations", NoHeader, "target", 0)), Rollout))),
     With(S("local", Local("proposals", NoHeader, "image", 0), Follow(Local("proposals", NoHeader, "image", 0)), Decisions),
          {Draft, Unreadable, Verified}),
     With(S("local", Local("proposals", NoHeader, "none", 0), Local("proposal", NoHeader, "none", 24), Quiet), {Unreadable}),
     With(S("proxy", Op("observation", NoHeader, "none", 2), Named(Op("proposal", NoHeader, "none", 21), 21), Decisions),
          {Verified}),
     \* lineage
     Earlier(With(S("proxy", Op("policy", NoHeader, "target", 0), Unknown, Decisions), {Verified, Mixed})),
     Earlier(With(S("proxy", Op("policy", NoHeader, "target", 0), Follow(Op("policy", NoHeader, "target", 0)), Quiet),
                  {Verified, Mixed, Unreadable})),
     With(Here(S("local", Local("policy", Selected, "target", 0), Local("generate", NoHeader, "none", 1), Quiet)), {Verified}),
     S("proxy", Elsewhere(Op("policy", NoHeader, "target", 0)), Viewer("policy", NoHeader, "none", 0),
       Roles(<<"viewer", Home>>, "pods.list")),
     S("local", Local("policy", NoHeader, "none", 0), Local("attempts", NoHeader, "none", 21), Quiet),
     S("local", Local("policy", NoHeader, "target", 0), Local("detail", NoHeader, "target", 0), Quiet),
     Tried(With(S("local", Named(Local("attempts", NoHeader, "none", 21), 21), Follow(Named(Local("attempts", NoHeader, "none", 21), 21)),
                  Decisions), {Verified}), {Attempted(81), Attempted(82), Attempted(83)}),
     Tried(With(S("local", Named(Local("rollbacks", NoHeader, "none", 81), 81), Local("rollbacks", NoHeader, "none", 81),
                  Quiet), {Verified}), {Attempted(81), Undone}),
     Tried(S("local", Named(Local("attempt", NoHeader, "none", 81), 82), Named(Local("attempt", NoHeader, "none", 91), 91), Quiet),
           {Attempted(81), Undone}),
     With(S("proxy", Named(Op("attempts", NoHeader, "none", 21), 21), Versioned(Op("apply", NoHeader, "none", 21)), Quiet), {Verified}),
     Tried(S("proxy", Named(Op("rollbacks", NoHeader, "none", 81), 81), Versioned(Op("rollback", NoHeader, "none", 81)), Quiet),
           {Attempted(81)})}
=============================================================================
