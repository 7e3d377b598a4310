--------------------------- MODULE MCAuthorities ---------------------------
(***************************************************************************)
(* The sets the authorities choose from.  Each holds one of the choices a  *)
(* property tells apart: a resource and one within it, an entry that       *)
(* expires and one that does not, a listing that closes a cycle.           *)
(***************************************************************************)
EXTENDS Authorities

LOCAL Grant(match, resource) ==
    {[action |-> "FsRead", selector |-> [match |-> match, resource |-> resource]]}

\* GoalOrchestrator: a request within the goal's grants and one beyond them;
\* evidence that does not support its claim, or is of an undeclared label.
MCParentGrants == Grant("prefix", <<"ws", "repo">>)
MCRequests ==
    {[grants |-> Grant("exact", <<"ws", "repo">>), budget |-> 1],
     [grants |-> Grant("prefix", <<"ws">>), budget |-> 1]}
LOCAL Item(label, matches) == [label |-> label, matches |-> matches]
MCEvidence ==
    {<<>>, <<Item("a", TRUE)>>, <<Item("a", FALSE), Item("a", TRUE)>>,
     <<Item("a", TRUE), Item("b", TRUE)>>}
MCDeclared == [t \in Tasks |-> {"a"}]
\* One of each shape in which three tasks are tied to each other by dependencies.
MCGraphs ==
    {[t1 |-> {}, t2 |-> {"t1"}, t3 |-> {"t2"}], [t1 |-> {}, t2 |-> {"t1"}, t3 |-> {"t1"}],
     [t1 |-> {}, t2 |-> {}, t3 |-> {"t1", "t2"}],
     [t1 |-> {}, t2 |-> {"t1"}, t3 |-> {"t1", "t2"}]}

\* PluginRegistry and CodeCapsules: a version that asks for more.
MCPluginGrants == {{}, Grant("prefix", <<"ws">>)}
MCCapsuleName == [c \in Candidates |-> IF c = "c3" THEN "n2" ELSE "n1"]
MCCapsuleGrants ==
    [c \in Candidates |-> Grant("prefix", IF c = "c1" THEN <<"ws", "a">> ELSE <<"ws">>)]

\* MemoryAuthority: two memories of a key, one of which expires.
LOCAL Entry(key, name, sensitivity, expires) ==
    [key |-> key, name |-> name, sensitivity |-> sensitivity, expires |-> expires]
MCEntries == {Entry("k1", "a", 0, 0), Entry("k1", "b", 1, 2), Entry("k2", "c", 1, 1)}

\* Safeguards: two releases, versions signed at one time or later.
LOCAL Signed(release_name, version, signed_at) ==
    [release |-> release_name, version |-> version, signed_at |-> signed_at,
     artifacts |-> <<version>>]
MCManifests ==
    {Signed("a", 1, 1), Signed("a", 2, 1), Signed("a", 2, 2), Signed("a", 3, 2),
     Signed("b", 1, 1), Signed("b", 2, 2)}

\* EnterpriseControl: chains, diamonds and cycles of three roles, one of them
\* without a mapping; and rules that are refused, or none, further up.
MCMappings ==
    {[a |-> "rules", b |-> "rules", c |-> "unmapped"],
     [a |-> "no rules", b |-> "rules", c |-> "refused rules"]}
MCListings == {<<>>, <<"a">>, <<"b">>, <<"c">>, <<"a", "b">>, <<"b", "c">>, <<"c", "a">>}

\* KnowledgeFabric: a chunk of two keys, one that expires, one of another scope.
LOCAL Chunk(keys, scope, sensitivity, trusted, expires, fields) ==
    [keys |-> keys, scope |-> scope, sensitivity |-> sensitivity, trusted |-> trusted,
     expires |-> expires, fields |-> fields]
MCChunks ==
    {Chunk({"k"}, "h", 1, TRUE, 0, {[class |-> 2, in_array |-> FALSE]}),
     Chunk({"k", "j"}, "h", 0, FALSE, 1, {}),
     Chunk({"j"}, "f", 3, TRUE, 0, {})}
LOCAL Query(keys, ceiling, untrusted, limit) ==
    [keys |-> keys, scope |-> "h", ceiling |-> ceiling, untrusted |-> untrusted, limit |-> limit]
MCQueries == {Query({"k"}, 1, FALSE, 2), Query({"k", "j"}, 3, TRUE, 1)}

\* EgressGate: hosts by name, in another spelling, below a domain, by address,
\* and of a metadata service.
LOCAL Plain(labels) == [labels |-> labels, spelling |-> "plain"]
LOCAL Dotted(labels) == [labels |-> labels, spelling |-> "Dotted."]
MCRules ==
    {[purpose |-> "model", schemes |-> {"https"},
      domains |-> {[host |-> <<"org", "api">>, subdomains |-> TRUE]}, literals |-> {"pub"},
      allow_ip_literals |-> TRUE, max_data_class |-> 1, redirect |-> "SameHost"],
     [purpose |-> "fetch", schemes |-> {"https"},
      domains |-> {[host |-> <<"org", "cdn">>, subdomains |-> FALSE]}, literals |-> {},
      allow_ip_literals |-> FALSE, max_data_class |-> 0, redirect |-> "Deny"]}
LOCAL Wanted(purpose, at, port, data_class, tainted) ==
    [purpose |-> purpose, scheme |-> "https", host |-> at, port |-> port,
     data_class |-> data_class, tainted |-> tainted]
MCEgressRequests ==
    {Wanted("model", Plain(<<"org", "api">>), 443, 1, FALSE),
     Wanted("model", Dotted(<<"org", "api">>), 8443, 0, FALSE),
     Wanted("model", Plain(<<"org", "api", "eu">>), 443, 2, FALSE),
     Wanted("model", Plain(<<"org", "api", "us">>), 443, 1, FALSE),
     Wanted("model", Plain(<<"pub">>), 443, 0, FALSE),
     Wanted("model", Plain(<<"priv">>), 443, 0, FALSE),
     Wanted("model", Plain(<<"metadata">>), 443, 0, FALSE),
     Wanted("fetch", Plain(<<"org", "cdn">>), 443, 0, FALSE),
     Wanted("fetch", Plain(<<"org", "cdn">>), 443, 0, TRUE),
     Wanted("fetch", Plain(<<"org", "cdn", "x">>), 443, 0, FALSE)}
MCMetadataHosts == {<<"metadata">>}

\* PolicySnapshots: tiers without a bundle, with one of the sequence 0, with the
\* rules of one sequence, with other rules of the same sequence, and of a later one.
LOCAL Permits(id, action, match, resource) ==
    [id |-> id, effect |-> "Permit", action |-> action,
     selector |-> [match |-> match, resource |-> resource], kinds |-> {}, sandbox |-> FALSE,
     class |-> 0, task |-> "", approval |-> FALSE]
LOCAL Bundle(number, held) == [sequence |-> number, rules |-> held]
LOCAL NoBundleYet == Bundle(-1, {})
LOCAL ReadWs == Permits("p1", "FsRead", "prefix", <<"ws">>)
LOCAL DeleteByHuman == [Permits("p2", "FsDelete", "exact", <<"ws", "a">>) EXCEPT !.kinds = {"human"}]
LOCAL WriteForTask ==
    [Permits("p3", "FsWrite", "prefix", <<"ws">>) EXCEPT !.task = "t", !.approval = TRUE]
LOCAL DenyReadA ==
    [Permits("d1", "FsRead", "prefix", <<"ws", "a">>) EXCEPT !.effect = "Deny", !.class = 1]
LOCAL Tiered(of_platform, of_user) ==
    [t \in Tiers |-> IF t = PlatformHard THEN of_platform ELSE of_user]
MCSnapshots ==
    {Tiered(p, u) :
        p \in {NoBundleYet, Bundle(1, {ReadWs}), Bundle(1, {ReadWs, DeleteByHuman}),
               Bundle(2, {ReadWs, DeleteByHuman})},
        u \in {NoBundleYet, Bundle(0, {DenyReadA}), Bundle(1, {DenyReadA}),
               Bundle(2, {WriteForTask}), Bundle(3, {WriteForTask, DenyReadA})}}
    \cup {Tiered(Bundle(1, {ReadWs}), Bundle(4, {ReadWs}))}
LOCAL Ask(action, resource, kind, sandboxed, class, task) ==
    [action |-> action, resource |-> resource, kind |-> kind, sandboxed |-> sandboxed,
     class |-> class, task |-> task, secret |-> FALSE]
MCAsked ==
    {Ask("FsRead", <<"ws", "a", "x">>, "agent", TRUE, 1, "t"),
     Ask("FsRead", <<"wsx">>, "agent", TRUE, 1, "t"),
     Ask("FsRead", <<"ws", "a">>, "agent", FALSE, 2, "t"),
     Ask("FsDelete", <<"ws", "a">>, "human", TRUE, 1, "t"),
     Ask("FsWrite", <<"ws", "b">>, "agent", TRUE, 2, "t")}

\* ModelInvoker: two models, one unreachable or local, one without tools; a call
\* that is to stay within the region.
LOCAL Listed1(model, class, residency, capabilities, quality, cost, reachable) ==
    [model |-> model, class |-> class, residency |-> residency, capabilities |-> capabilities,
     quality |-> quality, cost |-> cost, reachable |-> reachable]
MCListed ==
    {{Listed1(1, 1, "Global", {"streaming", "tools"}, 2, 1, TRUE),
      Listed1(2, 2, "OnDevice", {"streaming"}, 2, 1, TRUE)},
     {Listed1(1, 1, "Global", {"streaming", "tools"}, 2, 1, FALSE),
      Listed1(2, 2, "Regional", {}, 1, 2, TRUE)}}
LOCAL Call(model, class, residency, estimate) ==
    [model |-> model, class |-> class, residency |-> residency, estimate |-> estimate]
MCModelRequests ==
    {Call(1, 1, "Global", 1), Call(1, 1, "Regional", 1), Call(2, 1, "Regional", 2),
     Call(2, 2, "OnDevice", 1)}

\* SandboxRealms: one of each realm, mounts apart and nested, tools and overlay
\* of one directory of the host, a working directory that no mount has, a command
\* that climbs, a command in a realm without children.
LOCAL Mount(target, dir, source, executable) ==
    [target |-> target, host |-> dir, source |-> source,
     writable |-> source \in {"Overlay", "Temporary"}, executable |-> executable]
LOCAL Planned(level, mounts, entry) ==
    [realm |-> level, mounts |-> mounts, network |-> "Denied",
     command |-> IF entry = <<>> THEN {} ELSE {[entry |-> entry, cwd |-> <<"w">>]},
     sound |-> TRUE]
LOCAL Tools == Mount(<<"t">>, <<"usr">>, "SystemTools", TRUE)
LOCAL ScratchTools == Mount(<<"t">>, <<"tmp">>, "SystemTools", TRUE)
LOCAL Work == Mount(<<"w">>, <<"ws">>, "Workspace", FALSE)
LOCAL Overlaid(target) == Mount(target, <<"tmp">>, "Overlay", FALSE)
MCPlans ==
    {Planned(1, {Work}, <<>>), Planned(1, {Work}, <<"w", "x">>),
     Planned(2, {Work, Tools}, <<"t", "x">>), Planned(2, {Tools}, <<"t", "x">>),
     Planned(2, {Work, Tools}, <<"t", "..", "x">>),
     Planned(3, {ScratchTools, Overlaid(<<"w">>)}, <<"t", "x">>),
     Planned(3, {Tools, Work, Overlaid(<<"t", "o">>)}, <<"t", "o", "x">>),
     Planned(3, {Work, Overlaid(<<"o">>), Mount(<<"t">>, <<"ws">>, "Workspace", TRUE),
                 Mount(<<"t", "u">>, <<"ws">>, "Workspace", FALSE)}, <<"t", "u", "x">>),
     [Planned(4, {Tools, Overlaid(<<"o">>)}, <<"t", "x">>) EXCEPT !.network = "Mediated"]}
=============================================================================
