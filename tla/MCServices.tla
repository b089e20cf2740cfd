----------------------------- MODULE MCServices -----------------------------
(***************************************************************************)
(* Four services that share nothing but the process, each explored by      *)
(* itself in behaviours of its own: the reverse queries of a node          *)
(* (NodeSession), the configuration of a notification channel              *)
(* (ChannelConfig), the node store's memory (NodeStore) and the theme      *)
(* packages (Themes).  A scenario, chosen at the start, names the service  *)
(* and bounds the behaviour.                                               *)
(***************************************************************************)
EXTENDS NodeSession, ChannelConfig, NodeStore, Themes, TLC

CONSTANTS MaxCalls, MaxThemeCalls

VARIABLES
    scen,     \* the scenario of this behaviour
    calls     \* calls of the node store, or administrators' requests for themes, so far
mcvars == <<sessionVars, channelVars, storeVars, themeVars, scen, calls>>

OneQuery == INSTANCE NodeSession WITH MaxPending <- 1    \* a session that is full with one query

-----------------------------------------------------------------------------
(* The configuration of a channel: its first one, what administrators save, and the sessions
   of the two phones. *)

First == [variant |-> "mtproto", language |-> "",
          values |-> [api_id |-> "1", api_hash |-> "h", phone |-> "a", chat_id |-> "c", session |-> "", username |-> ""]]
JustFirst == {First}

Account(phone, chat) == [mode |-> "mtproto", api_id |-> "1", api_hash |-> "", phone |-> phone, chat_id |-> chat]
Saved == {[typ |-> "telegram", fields |-> Account("a", "d")], [typ |-> "telegram", fields |-> Account("b", "c")],
          [typ |-> "telegram", fields |-> [bot_token |-> "t", chat_id |-> "c"]],
          [typ |-> "telegram", fields |-> [chat_id |-> "null"]], [typ |-> "webhook", fields |-> [url |-> "u"]]}

Issued == [session_a |-> [api_id |-> "1", api_hash |-> "h", phone |-> "a"],
           session_b |-> [api_id |-> "1", api_hash |-> "h", phone |-> "b"]]

\* All configurations that can be stored, as administrators save them: blanks where the readers
\* keep them.
Values(v) ==
    {f \in [DOMAIN Schema[v] -> {"", " ", "a"}] : \A k \in DOMAIN f : Schema[v][k] = "required" => f[k] = "a"}
SavedForms ==
    LET configs == UNION {[variant: {v}, language: {"", "zh"}, values: Values(v)] : v \in DOMAIN Schema}
    IN  {[typ |-> TypeOf(c.variant), fields |-> MarshalConfig(c)] : c \in configs}
AnySaved == INSTANCE ChannelConfig WITH Replacements <- SavedForms

-----------------------------------------------------------------------------
Node1 == CHOOSE n \in Nodes : TRUE
Secret1 == CHOOSE x \in Secrets : TRUE
FirstNodes == Node1 :> Secret1

-----------------------------------------------------------------------------
(* What administrators upload: two versions of one theme, another theme, and packages that
   must be refused. *)

Theme1 == CHOOSE id \in Custom : TRUE
Block(on, decls) == [on |-> on, decls |-> decls]
Package(id, version, tokens) ==
    "theme.json" :> [valid |-> TRUE, id |-> id, version |-> version] @@ "tokens.css" :> tokens
Uploads ==
    LET v1 == Package(Theme1, 1, <<Block({"light"}, <<"p">>)>>)
        v2 == Package(Theme1, 2, <<Block({"dark"}, <<"q">>), Block({"light"}, <<"q">>)>>)
        with(name, content) == [readable |-> TRUE, files |-> v1 @@ name :> content]
    IN {[readable |-> TRUE, files |-> v1], [readable |-> FALSE, files |-> v1],
        [readable |-> TRUE, files |-> v2 @@ "recipes.css" :> <<Block({"dark"}, <<"r">>)>>],
        with("preview.png", "invalid"), with("recipes.css", <<Block({"light", "dark"}, <<"p">>)>>),
        with("recipes.css", <<Block({"light"}, <<"forbidden">>)>>)}
       \cup {[readable |-> TRUE, files |-> Package(id, 1, <<Block({"light"}, <<"o">>)>>)] : id \in Builtin \cup (Custom \ {Theme1})}

-----------------------------------------------------------------------------
(* Scenarios. *)

Stream1 == {CHOOSE s \in Streams : TRUE}
Query1 == {CHOOSE q \in Queries : TRUE}
Joining == [of |-> "session", streams |-> Stream1, queries |-> Query1, secrets |-> 2, close |-> TRUE, full |-> FALSE]
SessionScenarios ==
    {Joining, [Joining EXCEPT !.streams = Streams, !.secrets = 1, !.close = FALSE],
     [Joining EXCEPT !.queries = Queries, !.secrets = 1, !.close = FALSE],
     [Joining EXCEPT !.queries = Queries, !.secrets = 1, !.close = FALSE, !.full = TRUE],
     [Joining EXCEPT !.streams = Streams, !.queries = {}]}
WithinSession ==
    /\ \A s \in Streams : st[s].phase # "idle" => s \in scen.streams
    /\ \A q \in Queries : qs[q].pc # "new" => q \in scen.queries
    /\ secret <= scen.secrets /\ (hub.closed => scen.close)

\* Logins and replacements, or any configuration saved over any other.
Request1 == {CHOOSE r \in Requests : TRUE}
ChannelScenarios == [of: {"channel", "saved"}]

\* One node with all its calls, or all nodes with the calls that hand secrets on.
StoreScenarios == [of: {"store"}, nodes: {{Node1}, Nodes}]
WithinStore ==
    /\ calls <= MaxCalls
    /\ \A w \in Workers : op[w].kind # "idle" => op[w].node \in scen.nodes
    /\ scen.nodes = Nodes => /\ \A n \in Nodes : ~updates[n] /\ ~virt[n]
                             /\ \A w \in Workers : op[w].kind \in {"idle", "create", "patch", "metrics", "order"}
Begins == \E w \in Workers : op[w].kind = "idle" /\ op'[w].kind # "idle"

MCInit ==
    /\ SessionInit /\ ChannelInit /\ StoreInit /\ ThemesInit /\ calls = 0
    /\ scen \in SessionScenarios \cup ChannelScenarios \cup {[of |-> "themes"]} \cup StoreScenarios
InSession ==
    /\ scen.of = "session" /\ UNCHANGED <<channelVars, storeVars, themeVars, scen, calls>>
    /\ \/ ~scen.full /\ SessionNext
       \/ scen.full /\ OneQuery!SessionNext
    /\ WithinSession'
InChannel ==
    /\ \/ scen.of = "channel" /\ ChannelNext
       \/ scen.of = "saved" /\ \E r \in Request1 : AnySaved!BeginReplace(r) \/ ReplaceChannel(r)
    /\ UNCHANGED <<sessionVars, storeVars, themeVars, scen, calls>>
InStore ==
    /\ scen.of = "store" /\ StoreNext /\ UNCHANGED <<sessionVars, channelVars, themeVars, scen>>
    /\ calls' = calls + (IF Begins THEN 1 ELSE 0)
    /\ WithinStore'
Asks == \E a \in Admins : adm[a].pc = "idle" /\ adm'[a].pc # "idle"
InThemes ==
    /\ scen.of = "themes" /\ ThemesNext /\ UNCHANGED <<sessionVars, channelVars, storeVars, scen>>
    /\ calls' = calls + (IF Asks THEN 1 ELSE 0)
    /\ calls' <= MaxThemeCalls
MCNext == InSession \/ InChannel \/ InStore \/ InThemes

\* The fairness of NodeSession, in the scenario its liveness is checked in.
Only(A) == scen = Joining /\ A /\ UNCHANGED <<channelVars, storeVars, themeVars, scen, calls>>
MCSpec ==
    /\ MCInit /\ [][MCNext]_mcvars
    /\ \A s \in Stream1 : /\ WF_mcvars(Only(StreamNext(s)))
                          /\ WF_mcvars(Only(ReaderNext(s)))
                          /\ WF_mcvars(Only(WriterNext(s)))

-----------------------------------------------------------------------------
(* Properties that depend on the scenario. *)

\* A stream whose session ended is joined: its goroutines end and its handler returns
\* (session.go, Connect; stream.go, close).
EndedStreamsAreJoined == scen = Joining => StreamsAreJoined
=============================================================================
