---------------------------- MODULE MCDashUpdate ----------------------------
(* Small instances of DashUpdate: an installation in the flat layout and one  *)
(* in the release layout, two jobs, one new release in each channel.          *)
EXTENDS DashUpdate

MCJobs == 1 .. 2
MCInstalls == {[version |-> 2, legacy |-> l, systemd |-> TRUE, runner |-> FALSE] : l \in BOOLEAN}
Request(by, action, channel, origin) ==
    [by |-> by, action |-> action, channel |-> channel, origin |-> origin, manager |-> "auto"]
MCRequests == {Request("service", "update", "release", "auto"),
               Request("cli", "reinstall", "release", "manual")}
MCCatalog == << [version |-> 6, pre |-> FALSE, draft |-> TRUE, asset |-> TRUE],
                [version |-> 5, pre |-> TRUE, draft |-> FALSE, asset |-> TRUE],
                [version |-> 4, pre |-> FALSE, draft |-> FALSE, asset |-> TRUE],
                [version |-> 2, pre |-> FALSE, draft |-> FALSE, asset |-> TRUE] >>
Entry(n, size) == [name |-> n, safe |-> TRUE, root |-> TRUE, kind |-> "file", size |-> size]
Package(v) ==
    [bytes |-> 2, declared |-> 2, entries |-> <<Entry("dash", 1), Entry("web", 1)>>,
     manifest |-> [format |-> 1, complete |-> TRUE, unknown |-> FALSE, os |-> "linux", arch |-> "amd64",
                   dash |-> v, node |-> v],
     tree |-> TRUE, nodeSums |-> TRUE, binary |-> v, binaryNode |-> v]
\* the release asked for, another one, one that is too large and a doubled entry
MCArchives == {Package(4), Package(2), [Package(4) EXCEPT !.bytes = 3],
               [Package(4) EXCEPT !.entries = <<Entry("dash", 1), Entry("dash", 1)>>]}
Obs(state, restarts) == [state |-> state, restarts |-> restarts]
MCObservations == {<<Obs("activating", 0), Obs("running", 0), Obs("running", 0)>>,
                   <<Obs("running", 0), Obs("running", 1)>>,
                   <<Obs("activating", 0), Obs("failed", 0)>>}
=============================================================================
