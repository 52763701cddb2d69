-------------------------- MODULE MCTenantServices --------------------------
(* The tenant-scoped services, for TLC.  They share no table, so a          *)
(* behaviour runs one of them: their product would add states and nothing   *)
(* either can do to the other.                                              *)
EXTENDS Configuration, ScopeCard, ConsoleSignIn, Intake, Delivery, PolicyGate,
        Planning, Corpus, SkillRun, TaskGraph, Calculation, Migrations,
        ReleaseGate, TLC

VARIABLE service

Row(sop, autonomy, supervised, sampled) ==
    [sop |-> sop, autonomy |-> autonomy, supervised |-> supervised, sampled |-> sampled]
Input(rowsOf) == [byWorker |-> FALSE, manager |-> TRUE, owner |-> TRUE, rows |-> rowsOf,
                  producible |-> {"figures"}, accountable |-> {"figures"}]
SomeInputs == {Input({Row("SOP-1", "observe", FALSE, FALSE)}),
               Input({Row("SOP-1", "execute", TRUE, TRUE)}),
               Input({Row("SOP-1", "execute", TRUE, FALSE)}),
               [Input({}) EXCEPT !.byWorker = TRUE]}

ConfigScopes == {{}, {"entity"}}
ConfigReads == {[field |-> 1, scope |-> {"entity"}, dated |-> TRUE]}

(* One transport id used for two messages, and one too large to admit.      *)
Mail(id, content) ==
    [channel |-> "email", id |-> id, content |-> content, loop |-> FALSE, external |-> TRUE,
     oversized |-> FALSE, replayed |-> FALSE, late |-> FALSE, dmarc |-> "pass", member |-> TRUE]
SomeMessages == {Mail("m1", "a"), Mail("m1", "b"), [Mail("m2", "c") EXCEPT !.oversized = TRUE]}
Text(signals, processes) == [empty |-> FALSE, callback |-> FALSE, signals |-> signals,
                             processes |-> processes, claims |-> FALSE]
SomeTexts == {Text({"execute", "prepare"}, {3}), Text({"prepare"}, {2, 4}), Text({}, {}),
              [Text({}, {1}) EXCEPT !.callback = TRUE], [Text({}, {}) EXCEPT !.empty = TRUE]}

(* One that email carries; one only the console may show, preferred by      *)
(* email; one too long for email, which the router does not see; one of a   *)
(* class nothing shows; and one that is not complete.                       *)
Output(sensitivity, classes, length) ==
    [decided |-> TRUE, parts |-> {"answer", "status", "exclusions", "next", "citations"},
     refusal |-> FALSE, sensitivity |-> sensitivity, bundle |-> FALSE, classes |-> classes,
     length |-> length, preference |-> <<"email">>, graph |-> "g", class |-> "figures",
     recipient |-> "ann", group |-> 1]
SomeOutputs == {Output("internal", {4, 7}, 100), [Output("internal", {4}, 100) EXCEPT !.group = 2],
                Output("restricted", {16}, 100), Output("internal", {15}, 100),
                Output("internal", {4}, 200000), Output("public", {18}, 1),
                [Output("public", {1}, 1) EXCEPT !.parts = {"answer"}],
                [Output("public", {1}, 1) EXCEPT !.decided = FALSE]}


(* A limit under which an entry passes, a second approval over another one, *)
(* and rules of another process, another year or a broken condition.        *)
Rule(rank, process, condition, needs, onPass, onFail) ==
    [rank |-> rank, active |-> TRUE, from |-> 1, to |-> 9, process |-> process,
     condition |-> condition, needs |-> needs, onPass |-> onPass, onFail |-> onFail]
SomeRules == {Rule(90, "*", "near", <<"materiality", "tolerance">>, "allow", "escalate"),
              Rule(50, "close", "within", <<"tolerance">>, "allow", "dual_control"),
              Rule(50, "close", "true", <<>>, "allow", "refuse"),
              [Rule(95, "*", "defect", <<>>, "allow", "refuse") EXCEPT !.to = 4],
              Rule(10, "audit", "defect", <<>>, "allow", "refuse")}
Backed == [named |-> TRUE, active |-> TRUE, raised |-> TRUE, parallel |-> TRUE,
           accountable |-> TRUE, stale |-> FALSE]
Subject(class, words) == [class |-> class, words |-> words, scope |-> "none",
                          redirects |-> FALSE, external |-> FALSE, autonomy |-> "execute"]
GateCall(subject, context, amount, isPinned) ==
    [subject |-> subject, context |-> context, amount |-> amount, pinned |-> isPinned,
     process |-> "close", day |-> 5]
SomeCalls == {GateCall(Subject("routine_entry", {}), Backed, 1, TRUE),
              GateCall(Subject("routine_entry", {}), Backed, 2, FALSE),
              GateCall(Subject("routine_entry", {"markDone", "reconciliation"}), Backed, 1, TRUE),
              [GateCall(Subject("routine_entry", {}), [Backed EXCEPT !.stale = TRUE], 1, TRUE)
                 EXCEPT !.day = 3]}

(* A skill whose graphs write, one of a class no level may produce, a       *)
(* reserved one; all granted, then one setting withdrawn.                   *)
Tool(writes, irreversible) ==
    [writes |-> writes, irreversible |-> irreversible, modes |-> {"draft", "execute"}]
Skill(id, order, class, tools) ==
    [id |-> id, order |-> order, status |-> "active", class |-> class, max |-> "execute",
     knowledge |-> TRUE, tools |-> tools]
SomeSkills == {Skill("entry", 1, "judgmental_entry", <<>>),
               Skill("entry", 2, "routine_entry",
                     <<Tool(FALSE, FALSE), Tool(TRUE, FALSE), Tool(TRUE, TRUE)>>),
               Skill("pay", 1, "payment_release", <<>>),
               [Skill("old", 1, "routine_entry", <<>>) EXCEPT !.status = "suspended"]}
AllSet == [register |-> {"my", "sg"},
           axes |-> [jurisdiction |-> "x", framework |-> "x", currency |-> "x"],
           grant |-> "execute", supervisor |-> "usr", raise |-> TRUE, accountable |-> TRUE,
           budget |-> TRUE]
SomeOrgs == {AllSet, [AllSet EXCEPT !.accountable = FALSE], [AllSet EXCEPT !.budget = FALSE],
             [AllSet EXCEPT !.axes.currency = Unset], [AllSet EXCEPT !.register = {"my"}]}
NoHints == [jurisdiction |-> Unset, framework |-> Unset, currency |-> Unset]
Request(skill, entity) == [zone |-> TRUE, scope |-> {}, entity |-> entity, hints |-> NoHints,
                           date |-> "rule", skill |-> skill]
SomeRequests == {Request("entry", "my"), Request("pay", Unset), Request("old", "sg"),
                 [Request("entry", Unset) EXCEPT !.zone = FALSE],
                 [Request("entry", Unset) EXCEPT !.scope = {"sg"}, !.date = "none"],
                 [Request("entry", "my") EXCEPT !.hints.framework = "y"]}

(* A section written, rewritten and written twice under one heading; a rate *)
(* nobody dated; a heading with nothing under it.                           *)
Section(id, text, rate) == [id |-> id, text |-> text, rate |-> rate, heading |-> TRUE, body |-> TRUE]
Directory(version, from, sections) ==
    [version |-> version, from |-> from, sections |-> sections, verified |-> 2]
SomeDirectories == {Directory("v1", 1, <<Section("s", "a", TRUE)>>),
                    Directory("v2", 2, <<Section("s", "b", FALSE), Section("s", "c", FALSE),
                                         [Section("t", "d", FALSE) EXCEPT !.body = FALSE]>>),
                    [Directory("v2", 3, <<Section("s", "b", TRUE)>>) EXCEPT !.verified = 0]}

(* A route whose first fallback takes what it must not, and one too dear.   *)
Link(by, conditions, price) ==
    [provider |-> by, conditions |-> conditions, price |-> price]
RouteOf(chain) == [chain |-> chain, context |-> 2, ceiling |-> 2]
SomeRoutes == {RouteOf(<<Link("one", {}, 1), Link("two", {"timeout", "content_filter"}, 3),
                         Link("gone", {"provider_5xx"}, 1), Link("one", {"invalid_request"}, 1)>>),
               RouteOf(<<Link("one", {}, 3)>>)}
Chunk(id, covers) == [id |-> id, covers |-> covers]
Says(line, said, quantities) ==
    [refusalLine |-> line, claims |-> said, quantities |-> quantities]
Cites(cites) == [cites |-> cites]
Total(components, stated) == [components |-> components, stated |-> stated, whole |-> TRUE]
SomeDeclared == {{}, {Total(<<1, 2>>, 3)}, {Total(<<1, 2>>, 3), Total(<<1, 2>>, 4)}}
SomeModelOutputs == {Says(FALSE, {Cites({Chunk(1, TRUE)})}, {}),
                     Says(FALSE, {Cites({Chunk(2, FALSE)})}, {}),
                     Says(TRUE, {Cites({})}, {}),
                     Says(FALSE, {}, {[name |-> "a", value |-> 1], [name |-> "a", value |-> 2]})}
SomeBudgets == {[tokens |-> 9, cost |-> 9, platform |-> 9], [tokens |-> 0, cost |-> 9, platform |-> 9]}
SomeGroundings == {{}, {Chunk(1, TRUE), Chunk(2, FALSE)}}

GraphInput(class, words) == [class |-> class, words |-> words, autonomy |-> "execute"]
SomeGraphInputs == {GraphInput("routine_entry", {}), GraphInput("judgmental_entry", {}),
                    GraphInput("routine_entry", {"certify", "reconciliation"})}

(* Ties of either sign, a product and a sum past the safe integers, a       *)
(* fraction, a second currency and a second scale; two items under one key  *)
(* on each side, and two that cannot be subtracted.                         *)
Minor(n, currency, scale) == [minor |-> n, unit |-> [currency |-> currency, scale |-> scale]]
Ringgit(n) == Minor(n, "MYR", 2)
SomeValues == {Ringgit(n) : n \in {-15, -5, 0, 7, 25, 61, Inexact}} \union
              {Minor(2, "SGD", 2), Minor(7, "MYR", 3)}
SomeRates == {[digits |-> 5, exponent |-> 1], [digits |-> -15, exponent |-> 2], [digits |-> 3, exponent |-> 0]}
ListItem(key, amount) == [key |-> key, amount |-> Ringgit(amount)]
SomeLists == {<<>>, <<ListItem("a", 3)>>, <<ListItem("a", 4), ListItem("b", 2)>>,
              <<ListItem("b", 2), ListItem("b", 9)>>, <<ListItem("b", 1), ListItem("a", 3), ListItem("c", 5)>>,
              <<ListItem("a", 50), ListItem("b", 40), ListItem("c", -60)>>, <<ListItem("a", -50)>>,
              <<ListItem("a", Inexact), ListItem("b", 2)>>,
              <<ListItem("b", 2), [key |-> "a", amount |-> Minor(2, "SGD", 2)]>>}
Entry(a, amount) == [account |-> a, amount |-> amount]
Posting(live, posts, lines) == [live |-> live, posts |-> posts, lines |-> lines]
SomePostings == {Posting(TRUE, TRUE, <<Entry("1000", 4), Entry("2000", -4)>>),
                 Posting(TRUE, TRUE, <<Entry("1000", 1), Entry("1000", 2)>>),
                 Posting(TRUE, TRUE, <<Entry("1000", 56), Entry("2000", Inexact)>>),
                 Posting(FALSE, TRUE, <<Entry("2000", 7)>>), Posting(TRUE, FALSE, <<Entry("2000", 7)>>)}
SomeOpening == [a \in {"1000", "2000"} |-> IF a = "1000" THEN 5 ELSE 0]

(* The second build adds a file, the third changes one that was applied.    *)
File(id, content) == [id |-> id, content |-> content]
SomeBuilds == {<<File("1", "a")>>, <<File("1", "a"), File("2", "b")>>, <<File("1", "c")>>}

(* A case per suite, of which the channel suite has no floor of its own.    *)
Case(id, suite, zero, weight) == [id |-> id, suite |-> suite, zeroTolerance |-> zero, weight |-> weight]
SomeCases == {Case(1, "adversarial", TRUE, 1), Case(2, "golden", FALSE, 3),
              Case(3, "arithmetic", FALSE, 1), Case(4, "channel_rendering", FALSE, 95)}
CanaryCase == Case(0, "adversarial", TRUE, 1)
DefaultFloors == [s \in {"adversarial", "refusal", "golden", "arithmetic"} |-> IF s = "golden" THEN 95 ELSE 100]

Init == /\ service \in {"config", "cards", "signin", "intake", "delivery", "gates", "planning", "corpus", "skills", "workflow", "figures", "migrations", "release"}
        /\ ConfigInit
        /\ CardInit
        /\ SignInInit
        /\ IntakeInit
        /\ DeliveryInit
        /\ GateInit
        /\ PlanInit
        /\ CorpusInit
        /\ RunInit
        /\ GraphInit
        /\ CalcInit
        /\ MigrationInit
        /\ ReleaseInit
        /\ service # "signin" => links = {}
        /\ service # "gates" => limits = [t \in Thresholds |-> Unset]
        /\ service # "planning" => org = AllSet
        /\ service # "workflow" =>
             /\ runInput = GraphInput("routine_entry", {})
             /\ pinned = [status |-> "resolved", expires |-> 1]
Next == /\ UNCHANGED service
        /\ \/ service = "config" /\ ConfigNext /\ UNCHANGED <<cardVars, signInVars, intakeVars, deliveryVars, gateVars, planVars, corpusVars, runVars, graphVars, calcVars, migrationVars, gateRunVars>>
           \/ service = "cards" /\ CardNext /\ UNCHANGED <<configVars, signInVars, intakeVars, deliveryVars, gateVars, planVars, corpusVars, runVars, graphVars, calcVars, migrationVars, gateRunVars>>
           \/ service = "signin" /\ SignInNext /\ UNCHANGED <<configVars, cardVars, intakeVars, deliveryVars, gateVars, planVars, corpusVars, runVars, graphVars, calcVars, migrationVars, gateRunVars>>
           \/ service = "intake" /\ IntakeNext /\ UNCHANGED <<configVars, cardVars, signInVars, deliveryVars, gateVars, planVars, corpusVars, runVars, graphVars, calcVars, migrationVars, gateRunVars>>
           \/ service = "delivery" /\ DeliveryNext /\ UNCHANGED <<configVars, cardVars, signInVars, intakeVars, gateVars, planVars, corpusVars, runVars, graphVars, calcVars, migrationVars, gateRunVars>>
           \/ service = "gates" /\ GateNext /\ UNCHANGED <<configVars, cardVars, signInVars, intakeVars, deliveryVars, planVars, corpusVars, runVars, graphVars, calcVars, migrationVars, gateRunVars>>
           \/ service = "planning" /\ PlanNext /\ UNCHANGED <<configVars, cardVars, signInVars, intakeVars, deliveryVars, gateVars, corpusVars, runVars, graphVars, calcVars, migrationVars, gateRunVars>>
           \/ service = "corpus" /\ CorpusNext /\ UNCHANGED <<configVars, cardVars, signInVars, intakeVars, deliveryVars, gateVars, planVars, runVars, graphVars, calcVars, migrationVars, gateRunVars>>
           \/ service = "skills" /\ RunNext /\ UNCHANGED <<configVars, cardVars, signInVars, intakeVars, deliveryVars, gateVars, planVars, corpusVars, graphVars, calcVars, migrationVars, gateRunVars>>
           \/ service = "workflow" /\ GraphNext /\ UNCHANGED <<configVars, cardVars, signInVars, intakeVars, deliveryVars, gateVars, planVars, corpusVars, runVars, calcVars, migrationVars, gateRunVars>>
           \/ service = "figures" /\ CalcNext /\ UNCHANGED <<configVars, cardVars, signInVars, intakeVars, deliveryVars, gateVars, planVars, corpusVars, runVars, graphVars, migrationVars, gateRunVars>>
           \/ service = "migrations" /\ MigrationNext /\ UNCHANGED <<configVars, cardVars, signInVars, intakeVars, deliveryVars, gateVars, planVars, corpusVars, runVars, graphVars, calcVars, gateRunVars>>
           \/ service = "release" /\ ReleaseNext /\ UNCHANGED <<configVars, cardVars, signInVars, intakeVars, deliveryVars, gateVars, planVars, corpusVars, runVars, graphVars, calcVars, migrationVars>>
Spec == Init /\ [][Next]_<<service, configVars, cardVars, signInVars, intakeVars, deliveryVars, gateVars, planVars, corpusVars, runVars, graphVars, calcVars, migrationVars, gateRunVars>>

TypeOK == ConfigTypeOK /\ CardTypeOK /\ SignInTypeOK /\ IntakeTypeOK /\ DeliveryTypeOK /\ GateTypeOK /\ PlanTypeOK /\ CorpusTypeOK /\ RunTypeOK /\ GraphTypeOK /\ CalcTypeOK /\ MigrationTypeOK /\ ReleaseTypeOK
=============================================================================
