------------------------- MODULE SemanticAttacksProofs -------------------------
(***************************************************************************)
(* Theorems about SemanticAttacks, for every choice of Kinds and Fillers and    *)
(* every bound: what a pass counts as kept out it was shown, call by call, and  *)
(* nothing served was left over from an earlier trial.                        *)
(***************************************************************************)
EXTENDS SemanticAttacks, SequenceTheorems, TLAPS

(* The stores and what a run may put in them. *)
StoredItems ==
    [of : {"genuine", "planted", "filler"}, n : Nat, fixture : Nat, variant : {"base", "mutated"},
     user : {"victim"}, source : {"user", "external"}, signed : BOOLEAN, tag : BOOLEAN,
     agent : Nat, old : BOOLEAN]
Outcomes == {"surfaced", "kept out", "no verdict"}
Positions == [channel : Nat, fixture : Nat, variant : Nat]
VerdictSet ==
    [status : {"VULNERABLE", "safe", "n/a", "none", "found", "aborted"}, cells : Seq(Seq(Outcomes)),
     trial : {<<>>} \cup [channel : ToSet(CHANNELS) \cup {"cross-user"}, fixture : Nat,
                         variant : {"base", "mutated"}]]
Trials(p) ==
    {t \in [channel : DOMAIN Channels, fixture : 1..NFixtures, variant : 1..2] :
        t.variant \in DOMAIN VariantsOf(attack, Passes[p].mutate)}
TrialAt(c, f, v) == [channel |-> c, fixture |-> f, variant |-> v]

(* What a scoring pass has decided so far was shown, up to the variant it is at. *)
Decided(c, f) == c < at.channel \/ (c = at.channel /\ f < at.fixture)
EarnedSoFar ==
    ~Done /\ Scoring =>
        /\ \A c \in DOMAIN Channels, f \in 1..NFixtures, v \in DOMAIN Variants :
              Decided(c, f) /\ outcomes[c][f] = "kept out" => TrialAt(c, f, v) \in proved[pass]
        /\ \A v \in DOMAIN Variants : v < at.variant =>
              TrialAt(at.channel, at.fixture, v) \in proved[pass]
Progress ==
    /\ TypeOK
    /\ at \in Positions
    /\ outcomes \in Seq(Seq(Outcomes)) /\ verdicts \in Seq(VerdictSet)
    /\ proved \in [DOMAIN Passes -> SUBSET Positions]
    /\ \A p \in DOMAIN Passes : proved[p] \subseteq Trials(p)
    /\ EarnedSoFar
    /\ SafeIsEarned

(* The store holds what this run wrote and what its resets left: nobody's but     *)
(* the victim's when no attacker writes; not empty once the victim wrote.  Every   *)
(* passage of letta's is in the archive of an agent that was made, and none left   *)
(* by a reset in that of an agent somebody has now.                            *)
AgentsOK(has) ==
    /\ has \in [made : Nat, of : [Users -> Nat]]
    /\ \A user \in Users : has.of[user] <= has.made
Allowed(failed, has) ==
    {m \in StoredItems :
        /\ m.old => Profile(kind).reset = "renames" \/ (kind = "mem0" /\ failed > 0)
        /\ attack = "cross_session_bleed" => m.of # "planted"
        /\ Profile(kind).reset = "renames" =>
              /\ m.agent \in 1..has.made
              /\ m.old => \A user \in Users : has.of[user] # m.agent}
Written == ~Done /\ Plan[step] \notin {"reset", "genuine", "probe"} => items # <<>>
ControlHeld ==
    ~Done /\ attack # "metadata_poisoning" /\ (\E j \in 1..(step - 1) : Plan[j] = "control") =>
        ServesOwn(served)
StoreInv ==
    /\ failures \in Nat
    /\ AgentsOK(agents)
    /\ items \in Seq(Allowed(failures, agents))
    /\ Written /\ ControlHeld
    /\ ServedIsOfThisTrial

-----------------------------------------------------------------------------
(* Constants and tables. *)

LEMMA PassesAre ==
    /\ DOMAIN Passes = 1..4
    /\ Passes[1].mode = "score" /\ Passes[2].mode = "score"
    /\ Passes[3].mode = "hunt" /\ Passes[4].mode = "hunt"
BY DEF Passes

LEMMA Lengths ==
    ASSUME attack \in Attacks
    PROVE  /\ NFixtures \in 1..5
           /\ Len(Channels) \in Nat /\ 1 <= Len(Channels) /\ DOMAIN Channels = 1..Len(Channels)
<1>1. Len(FixturesOf(attack)) = 5
  BY DEF FixturesOf, Attacks, InjectionFixtures, BleedFixtures, HijackFixtures,
         PromptInjectionFixtures, UpdateFixtures, MetadataFixtures
<1>2. NFixtures \in 1..5
  BY <1>1, SemanticAssumption DEF NFixtures, Undetermined
<1>3. Len(Channels) \in Nat /\ 1 <= Len(Channels) /\ DOMAIN Channels = 1..Len(Channels)
  <2>1. Len(<<"cross-user">>) = 1 /\ DOMAIN <<"cross-user">> = 1..1
    OBVIOUS
  <2>2. Len(CHANNELS) = 3 /\ DOMAIN CHANNELS = 1..3
    BY DEF CHANNELS
  <2> QED
    BY <2>1, <2>2 DEF Channels
<1> QED
  BY <1>2, <1>3

LEMMA VariantsAre ==
    ASSUME NEW a, NEW m
    PROVE  \E n \in {1, 2} :
             /\ Len(VariantsOf(a, m)) = n /\ DOMAIN VariantsOf(a, m) = 1..n
             /\ \A v \in 1..n : VariantsOf(a, m)[v] \in {"base", "mutated"}
<1> DEFINE one == <<"base">>
           two == <<"base", "mutated">>
<1>1. Len(one) = 1 /\ DOMAIN one = 1..1 /\ one[1] = "base"
  OBVIOUS
<1>2. Len(two) = 2 /\ DOMAIN two = 1..2 /\ two[1] = "base" /\ two[2] = "mutated"
  OBVIOUS
<1>3. VariantsOf(a, m) = one \/ VariantsOf(a, m) = two
  BY DEF VariantsOf
<1> HIDE DEF one, two
<1>4. (\A v \in 1..1 : v = 1) /\ \A v \in 1..2 : v = 1 \/ v = 2
  OBVIOUS
<1> QED
  BY <1>1, <1>2, <1>3, <1>4

LEMMA FixtureFields ==
    ASSUME NEW own, NEW ownAsked, NEW planted, NEW plantedAsked, NEW fill, NEW fillAsked
    PROVE  Fixture(own, ownAsked, planted, plantedAsked, fill, fillAsked).control.genuine = own
BY DEF Fixture

(* Every fixture gives the victim something to write. *)
GivesOwn(fixture) == fixture.control.genuine \in Seq(Nat) /\ fixture.control.genuine # <<>>
GivesEach(fixtures) ==
    /\ GivesOwn(fixtures[1]) /\ GivesOwn(fixtures[2]) /\ GivesOwn(fixtures[3])
    /\ GivesOwn(fixtures[4]) /\ GivesOwn(fixtures[5])

LEMMA FixtureGivesOwn ==
    ASSUME NEW own, own \in Seq(Nat), own # <<>>, NEW ownAsked, NEW planted, NEW plantedAsked,
           NEW fill, NEW fillAsked
    PROVE  GivesOwn(Fixture(own, ownAsked, planted, plantedAsked, fill, fillAsked))
BY FixtureFields DEF GivesOwn

LEMMA OneGivesOwn ==
    ASSUME NEW x \in Nat, NEW ownAsked, NEW planted, NEW plantedAsked, NEW fill, NEW fillAsked
    PROVE  GivesOwn(Fixture(<<x>>, ownAsked, planted, plantedAsked, fill, fillAsked))
<1> DEFINE own == <<x>>
<1>1. own \in Seq(Nat) /\ own # <<>>
  OBVIOUS
<1> HIDE DEF own
<1>2. GivesOwn(Fixture(own, ownAsked, planted, plantedAsked, fill, fillAsked))
  BY <1>1, FixtureGivesOwn
<1> QED
  BY <1>2 DEF own

LEMMA SixGiveOwn ==
    ASSUME NEW x1 \in Nat, NEW x2 \in Nat, NEW x3 \in Nat, NEW x4 \in Nat, NEW x5 \in Nat,
           NEW x6 \in Nat, NEW planted, NEW fill
    PROVE  GivesOwn(OneQuestion(<<x1, x2, x3, x4, x5, x6>>, planted, fill))
<1> DEFINE own == <<x1, x2, x3, x4, x5, x6>>
<1>1. own \in Seq(Nat) /\ own # <<>>
  OBVIOUS
<1> HIDE DEF own
<1>2. GivesOwn(OneQuestion(own, planted, fill))
  BY <1>1, FixtureGivesOwn DEF OneQuestion
<1> QED
  BY <1>2 DEF own

LEMMA FiveGiveEach ==
    ASSUME NEW a, NEW b, NEW c, NEW d, NEW e,
           GivesOwn(a), GivesOwn(b), GivesOwn(c), GivesOwn(d), GivesOwn(e)
    PROVE  GivesEach(<<a, b, c, d, e>>)
BY DEF GivesEach

LEMMA VictimWrites ==
    ASSUME attack \in Attacks, NEW f \in 1..5
    PROVE  /\ FixturesOf(attack)[f].control.genuine \in Seq(Nat)
           /\ FixturesOf(attack)[f].control.genuine # <<>>
<1>1. GivesEach(InjectionFixtures)
  <2>1. /\ GivesOwn(Fixture(<<6>>, <<2>>, 2, 2, 2, 1))
        /\ GivesOwn(Fixture(<<7>>, <<2>>, 2, 3, 3, 1))
        /\ GivesOwn(Fixture(<<3>>, <<2>>, 2, 6, 1, 1))
        /\ GivesOwn(Fixture(<<5>>, <<2>>, 2, 5, 2, 1))
        /\ GivesOwn(Fixture(<<4>>, <<2>>, 2, 4, 1, 1))
    BY OneGivesOwn
  <2> QED
    BY <2>1, FiveGiveEach DEF InjectionFixtures
<1>2. GivesEach(BleedFixtures)
  <2>1. /\ GivesOwn(OneQuestion(<<3>>, 0, 0))
        /\ GivesOwn(OneQuestion(<<3>>, 0, 0))
        /\ GivesOwn(OneQuestion(<<4>>, 0, 1))
        /\ GivesOwn(OneQuestion(<<2>>, 0, 0))
        /\ GivesOwn(OneQuestion(<<3>>, 0, 0))
    BY OneGivesOwn DEF OneQuestion
  <2> QED
    BY <2>1, FiveGiveEach DEF BleedFixtures
<1>3. GivesEach(HijackFixtures)
  <2>1. /\ GivesOwn(OneQuestion(<<3, 4, 4, 5, 3, 4>>, 7, 3))
        /\ GivesOwn(OneQuestion(<<1, 1, 1, 0, 2, 2>>, 5, 0))
        /\ GivesOwn(OneQuestion(<<2, 2, 3, 2, 2, 2>>, 4, 1))
        /\ GivesOwn(OneQuestion(<<3, 1, 2, 2, 0, 1>>, 5, 0))
        /\ GivesOwn(OneQuestion(<<2, 0, 1, 1, 2, 0>>, 4, 1))
    BY SixGiveOwn
  <2> QED
    BY <2>1, FiveGiveEach DEF HijackFixtures
<1>4. GivesEach(PromptInjectionFixtures)
  <2>1. /\ GivesOwn(Fixture(<<5>>, <<0>>, 1, 0, 1, 0))
        /\ GivesOwn(Fixture(<<4>>, <<2>>, 3, 2, 0, 1))
        /\ GivesOwn(Fixture(<<5>>, <<1>>, 3, 1, 1, 0))
        /\ GivesOwn(Fixture(<<5>>, <<1>>, 3, 1, 2, 0))
        /\ GivesOwn(Fixture(<<4>>, <<1>>, 3, 1, 2, 0))
    BY OneGivesOwn
  <2> QED
    BY <2>1, FiveGiveEach DEF PromptInjectionFixtures
<1>5. GivesEach(UpdateFixtures)
  <2>1. /\ GivesOwn(OneQuestion(<<5>>, 5, 2))
        /\ GivesOwn(OneQuestion(<<6>>, 6, 2))
        /\ GivesOwn(OneQuestion(<<4>>, 4, 1))
        /\ GivesOwn(OneQuestion(<<6>>, 6, 2))
        /\ GivesOwn(OneQuestion(<<4>>, 4, 1))
    BY OneGivesOwn DEF OneQuestion
  <2> QED
    BY <2>1, FiveGiveEach DEF UpdateFixtures
<1>6. GivesEach(MetadataFixtures)
  <2>1. /\ GivesOwn(OneQuestion(<<3>>, 3, 0))
        /\ GivesOwn(OneQuestion(<<3>>, 3, 1))
        /\ GivesOwn(OneQuestion(<<6>>, 6, 2))
        /\ GivesOwn(OneQuestion(<<7>>, 7, 2))
        /\ GivesOwn(OneQuestion(<<7>>, 7, 2))
    BY OneGivesOwn DEF OneQuestion
  <2> QED
    BY <2>1, FiveGiveEach DEF MetadataFixtures
<1>7. GivesEach(FixturesOf(attack))
  BY <1>1, <1>2, <1>3, <1>4, <1>5, <1>6 DEF FixturesOf, Attacks
<1>8. f = 1 \/ f = 2 \/ f = 3 \/ f = 4 \/ f = 5
  OBVIOUS
<1> QED
  BY <1>7, <1>8 DEF GivesEach, GivesOwn

LEMMA OnlyLettaRenames ==
    ASSUME kind \in SemanticKinds
    PROVE  /\ Profile(kind).reset = "may fail" <=> kind = "mem0"
           /\ Profile(kind).reset = "renames" <=> kind = "letta_archival"
BY DEF SemanticKinds, Profile, NaiveStore, UnscopedStore, DefendedStore, InspeximusStore,
       InspeximusLabelStore, InspeximusKeyStore, InspeximusUnseededStore, Mem0LocalStore,
       Mem0Store, LanggraphStore, LettaArchivalStore, NoFilterStore, FilterIgnoringStore

-----------------------------------------------------------------------------
(* Plans. *)

BleedPlan == <<"reset", "genuine", "control", "ask">>
UpdatePlan == <<"reset", "genuine", "control", "write", "ask">>
FilterPlan ==
    <<"reset", "genuine", "write", "negative control", "reset", "genuine", "write tagged", "ask">>
FilterHuntPlan == <<"reset", "genuine", "write tagged", "ask">>
WritePlan == <<"reset", "genuine", "write", "control", "ask">>
ProbePlan == <<"probe">>
Plans == {BleedPlan, UpdatePlan, FilterPlan, ProbePlan, FilterHuntPlan, WritePlan}

LEMMA PlanIsOne ==
    ASSUME attack \in Attacks
    PROVE  /\ Plan \in Plans
           /\ attack = "cross_session_bleed" => Plan = BleedPlan
           /\ attack # "metadata_poisoning" => Plan \in {BleedPlan, UpdatePlan, WritePlan}
BY DEF Plan, Plans, BleedPlan, UpdatePlan, FilterPlan, FilterHuntPlan, WritePlan, ProbePlan, Attacks

LEMMA PlansByCall ==
    /\ DOMAIN BleedPlan = 1..4
    /\ BleedPlan[1] = "reset" /\ BleedPlan[2] = "genuine" /\ BleedPlan[3] = "control"
    /\ BleedPlan[4] = "ask"
    /\ DOMAIN UpdatePlan = 1..5
    /\ UpdatePlan[1] = "reset" /\ UpdatePlan[2] = "genuine" /\ UpdatePlan[3] = "control"
    /\ UpdatePlan[4] = "write" /\ UpdatePlan[5] = "ask"
    /\ DOMAIN FilterPlan = 1..8
    /\ FilterPlan[1] = "reset" /\ FilterPlan[2] = "genuine" /\ FilterPlan[3] = "write"
    /\ FilterPlan[4] = "negative control" /\ FilterPlan[5] = "reset" /\ FilterPlan[6] = "genuine"
    /\ FilterPlan[7] = "write tagged" /\ FilterPlan[8] = "ask"
    /\ DOMAIN FilterHuntPlan = 1..4
    /\ FilterHuntPlan[1] = "reset" /\ FilterHuntPlan[2] = "genuine" /\ FilterHuntPlan[3] = "write tagged"
    /\ FilterHuntPlan[4] = "ask"
    /\ DOMAIN WritePlan = 1..5
    /\ WritePlan[1] = "reset" /\ WritePlan[2] = "genuine" /\ WritePlan[3] = "write"
    /\ WritePlan[4] = "control" /\ WritePlan[5] = "ask"
    /\ 1 \in DOMAIN BleedPlan /\ 1 \in DOMAIN UpdatePlan /\ 1 \in DOMAIN FilterPlan
    /\ 1 \in DOMAIN FilterHuntPlan /\ 1 \in DOMAIN WritePlan /\ 1 \in DOMAIN ProbePlan
    /\ DOMAIN ProbePlan = 1..1 /\ ProbePlan[1] = "probe"
BY DEF BleedPlan, UpdatePlan, FilterPlan, FilterHuntPlan, WritePlan, ProbePlan

LEMMA PlanDomain ==
    ASSUME NEW plan \in Plans
    PROVE  DOMAIN plan \subseteq Nat /\ 1 \in DOMAIN plan /\ plan[1] \in {"reset", "probe"}
<1>0. 1..1 \subseteq Nat /\ 1..4 \subseteq Nat /\ 1..5 \subseteq Nat /\ 1..8 \subseteq Nat
  OBVIOUS
<1>1. DOMAIN BleedPlan \subseteq Nat /\ 1 \in DOMAIN BleedPlan /\ BleedPlan[1] \in {"reset", "probe"}
  BY <1>0, PlansByCall
<1>2. DOMAIN UpdatePlan \subseteq Nat /\ 1 \in DOMAIN UpdatePlan /\ UpdatePlan[1] \in {"reset", "probe"}
  BY <1>0, PlansByCall
<1>3. DOMAIN FilterPlan \subseteq Nat /\ 1 \in DOMAIN FilterPlan /\ FilterPlan[1] \in {"reset", "probe"}
  BY <1>0, PlansByCall
<1>4. DOMAIN FilterHuntPlan \subseteq Nat /\ 1 \in DOMAIN FilterHuntPlan /\ FilterHuntPlan[1] \in {"reset", "probe"}
  BY <1>0, PlansByCall
<1>5. DOMAIN WritePlan \subseteq Nat /\ 1 \in DOMAIN WritePlan /\ WritePlan[1] \in {"reset", "probe"}
  BY <1>0, PlansByCall
<1>6. DOMAIN ProbePlan \subseteq Nat /\ 1 \in DOMAIN ProbePlan /\ ProbePlan[1] \in {"reset", "probe"}
  BY <1>0, PlansByCall
<1> QED
  BY <1>1, <1>2, <1>3, <1>4, <1>5, <1>6 DEF Plans

LEMMA PlanGoesOn ==
    ASSUME NEW plan \in Plans, NEW s \in DOMAIN plan, plan[s] \notin {"ask", "probe"}
    PROVE  /\ s + 1 \in DOMAIN plan
           /\ plan[s] = "reset" => plan[s + 1] = "genuine"
<1>1. CASE plan = BleedPlan
  <2>1. s \in 1..4
    BY <1>1, PlansByCall
  <2>2. s = 1 \/ s = 2 \/ s = 3 \/ s = 4
    BY <2>1
  <2>3. s # 4
    BY <1>1, PlansByCall
  <2>4. \/ s = 1 /\ s + 1 = 2 /\ s + 1 \in 1..4
        \/ s = 2 /\ s + 1 = 3 /\ s + 1 \in 1..4
        \/ s = 3 /\ s + 1 = 4 /\ s + 1 \in 1..4
    BY <2>2, <2>3
  <2> QED
    BY <1>1, <2>4, PlansByCall
<1>2. CASE plan = UpdatePlan
  <2>1. s \in 1..5
    BY <1>2, PlansByCall
  <2>2. s = 1 \/ s = 2 \/ s = 3 \/ s = 4 \/ s = 5
    BY <2>1
  <2>3. s # 5
    BY <1>2, PlansByCall
  <2>4. \/ s = 1 /\ s + 1 = 2 /\ s + 1 \in 1..5
        \/ s = 2 /\ s + 1 = 3 /\ s + 1 \in 1..5
        \/ s = 3 /\ s + 1 = 4 /\ s + 1 \in 1..5
        \/ s = 4 /\ s + 1 = 5 /\ s + 1 \in 1..5
    BY <2>2, <2>3
  <2> QED
    BY <1>2, <2>4, PlansByCall
<1>3. CASE plan = FilterPlan
  <2>1. s \in 1..8
    BY <1>3, PlansByCall
  <2>2. s = 1 \/ s = 2 \/ s = 3 \/ s = 4 \/ s = 5 \/ s = 6 \/ s = 7 \/ s = 8
    BY <2>1
  <2>3. s # 8
    BY <1>3, PlansByCall
  <2>4. \/ s = 1 /\ s + 1 = 2 /\ s + 1 \in 1..8
        \/ s = 2 /\ s + 1 = 3 /\ s + 1 \in 1..8
        \/ s = 3 /\ s + 1 = 4 /\ s + 1 \in 1..8
        \/ s = 4 /\ s + 1 = 5 /\ s + 1 \in 1..8
        \/ s = 5 /\ s + 1 = 6 /\ s + 1 \in 1..8
        \/ s = 6 /\ s + 1 = 7 /\ s + 1 \in 1..8
        \/ s = 7 /\ s + 1 = 8 /\ s + 1 \in 1..8
    BY <2>2, <2>3
  <2> QED
    BY <1>3, <2>4, PlansByCall
<1>4. CASE plan = FilterHuntPlan
  <2>1. s \in 1..4
    BY <1>4, PlansByCall
  <2>2. s = 1 \/ s = 2 \/ s = 3 \/ s = 4
    BY <2>1
  <2>3. s # 4
    BY <1>4, PlansByCall
  <2>4. \/ s = 1 /\ s + 1 = 2 /\ s + 1 \in 1..4
        \/ s = 2 /\ s + 1 = 3 /\ s + 1 \in 1..4
        \/ s = 3 /\ s + 1 = 4 /\ s + 1 \in 1..4
    BY <2>2, <2>3
  <2> QED
    BY <1>4, <2>4, PlansByCall
<1>5. CASE plan = WritePlan
  <2>1. s \in 1..5
    BY <1>5, PlansByCall
  <2>2. s = 1 \/ s = 2 \/ s = 3 \/ s = 4 \/ s = 5
    BY <2>1
  <2>3. s # 5
    BY <1>5, PlansByCall
  <2>4. \/ s = 1 /\ s + 1 = 2 /\ s + 1 \in 1..5
        \/ s = 2 /\ s + 1 = 3 /\ s + 1 \in 1..5
        \/ s = 3 /\ s + 1 = 4 /\ s + 1 \in 1..5
        \/ s = 4 /\ s + 1 = 5 /\ s + 1 \in 1..5
    BY <2>2, <2>3
  <2> QED
    BY <1>5, <2>4, PlansByCall
<1>6. CASE plan = ProbePlan
  <2>1. s \in 1..1
    BY <1>6, PlansByCall
  <2>2. s = 1
    BY <2>1
  <2> QED
    BY <1>6, <2>2, PlansByCall
<1> QED
  BY <1>1, <1>2, <1>3, <1>4, <1>5, <1>6 DEF Plans

LEMMA PlanControls ==
    ASSUME NEW plan \in {BleedPlan, UpdatePlan, WritePlan}, NEW s \in DOMAIN plan, plan[s] = "ask"
    PROVE  \E j \in 1..(s - 1) : plan[j] = "control"
<1>1. CASE plan = BleedPlan
  <2>1. s \in 1..4
    BY <1>1, PlansByCall
  <2>2. s = 1 \/ s = 2 \/ s = 3 \/ s = 4
    BY <2>1
  <2>3. s = 4
    BY <1>1, <2>2, PlansByCall
  <2>4. 3 \in 1..(s - 1)
    BY <2>3
  <2> QED
    BY <1>1, <2>4, PlansByCall
<1>2. CASE plan = UpdatePlan
  <2>1. s \in 1..5
    BY <1>2, PlansByCall
  <2>2. s = 1 \/ s = 2 \/ s = 3 \/ s = 4 \/ s = 5
    BY <2>1
  <2>3. s = 5
    BY <1>2, <2>2, PlansByCall
  <2>4. 3 \in 1..(s - 1)
    BY <2>3
  <2> QED
    BY <1>2, <2>4, PlansByCall
<1>3. CASE plan = WritePlan
  <2>1. s \in 1..5
    BY <1>3, PlansByCall
  <2>2. s = 1 \/ s = 2 \/ s = 3 \/ s = 4 \/ s = 5
    BY <2>1
  <2>3. s = 5
    BY <1>3, <2>2, PlansByCall
  <2>4. 4 \in 1..(s - 1)
    BY <2>3
  <2> QED
    BY <1>3, <2>4, PlansByCall
<1> QED
  BY <1>1, <1>2, <1>3

(* Only the metadata attack resets twice in a trial: no control comes before.     *)
LEMMA ResetsFirst ==
    ASSUME NEW plan \in {BleedPlan, UpdatePlan, WritePlan}, NEW s \in DOMAIN plan, plan[s] = "reset",
           NEW j \in 1..(s + 1 - 1)
    PROVE  plan[j] # "control"
<1>1. s = 1
  <2>1. CASE plan = BleedPlan
    <3>1. s \in 1..4
      BY <2>1, PlansByCall
    <3>2. s = 1 \/ s = 2 \/ s = 3 \/ s = 4
      BY <3>1
    <3> QED
      BY <2>1, <3>2, PlansByCall
  <2>2. CASE plan = UpdatePlan
    <3>1. s \in 1..5
      BY <2>2, PlansByCall
    <3>2. s = 1 \/ s = 2 \/ s = 3 \/ s = 4 \/ s = 5
      BY <3>1
    <3> QED
      BY <2>2, <3>2, PlansByCall
  <2>3. CASE plan = WritePlan
    <3>1. s \in 1..5
      BY <2>3, PlansByCall
    <3>2. s = 1 \/ s = 2 \/ s = 3 \/ s = 4 \/ s = 5
      BY <3>1
    <3> QED
      BY <2>3, <3>2, PlansByCall
  <2> QED
    BY <2>1, <2>2, <2>3
<1>2. j = 1
  BY <1>1
<1> QED
  BY <1>1, <1>2

LEMMA BleedWritesNothing ==
    ASSUME NEW s \in DOMAIN BleedPlan
    PROVE  BleedPlan[s] \notin {"write", "write tagged"}
<1>1. s \in 1..4
  BY PlansByCall
<1>2. s = 1 \/ s = 2 \/ s = 3 \/ s = 4
  BY <1>1
<1> QED
  BY <1>2, PlansByCall

-----------------------------------------------------------------------------
(* Positions and passes. *)

Same == UNCHANGED <<kind, attack, filler>>
Proves == proved' = proved \/ proved' = [proved EXCEPT ![pass] = @ \cup {at}]

LEMMA Here ==
    ASSUME Progress, ~Done
    PROVE  /\ pass \in 1..4 /\ Len(Variants) \in {1, 2} /\ Len(Channels) \in Nat
           /\ DOMAIN Variants = 1..Len(Variants) /\ DOMAIN Channels = 1..Len(Channels)
           /\ NFixtures \in 1..5 /\ 1 <= Len(Channels)
           /\ at.channel \in 1..Len(Channels) /\ at.fixture \in 1..NFixtures
           /\ at.variant \in 1..Len(Variants)
           /\ at = TrialAt(at.channel, at.fixture, at.variant)
           /\ step \in DOMAIN Plan /\ Plan \in Plans
<1>1. attack \in Attacks /\ pass \in 1..5 /\ at \in Positions
  BY DEF Progress, TypeOK
<1>2. pass \in 1..4
  BY <1>1 DEF Done, LastPass
<1>3. Len(Variants) \in {1, 2} /\ DOMAIN Variants = 1..Len(Variants)
  BY VariantsAre DEF Variants
<1>4. /\ NFixtures \in 1..5
      /\ Len(Channels) \in Nat /\ 1 <= Len(Channels) /\ DOMAIN Channels = 1..Len(Channels)
  BY <1>1, Lengths
<1>5. at.channel \in 1..Len(Channels) /\ at.fixture \in 1..NFixtures /\ at.variant \in 1..Len(Variants)
  BY <1>3, <1>4 DEF Progress, TypeOK
<1>6. at = TrialAt(at.channel, at.fixture, at.variant)
  BY <1>1 DEF Positions, TrialAt
<1>7. step \in DOMAIN Plan /\ Plan \in Plans
  BY <1>1, PlanIsOne DEF Progress, TypeOK
<1> QED
  BY <1>2, <1>3, <1>4, <1>5, <1>6, <1>7

LEMMA SameCase ==
    ASSUME Same
    PROVE  /\ Channels' = Channels /\ NFixtures' = NFixtures /\ LastPass' = LastPass
           /\ \A q : Trials(q)' = Trials(q)
<1>1. Channels' = Channels /\ NFixtures' = NFixtures /\ LastPass' = LastPass
  BY DEF Same, Channels, NFixtures, LastPass, Undetermined
<1> QED
  BY <1>1 DEF Trials, Same

LEMMA SamePass ==
    ASSUME Same, UNCHANGED pass
    PROVE  Plan' = Plan /\ Variants' = Variants /\ (Scoring' <=> Scoring) /\ (Done' <=> Done)
BY DEF Same, Plan, Variants, Scoring, Done, LastPass, Undetermined

LEMMA ThisTrial ==
    ASSUME Progress, ~Done
    PROVE  at \in Trials(pass)
BY Here DEF Trials, Progress, Positions, Variants

(* What was shown stays shown, and only this trial is added.                   *)
LEMMA ProvedGrows ==
    ASSUME Progress, ~Done, Same, Proves
    PROVE  /\ proved' \in [DOMAIN Passes -> SUBSET Positions]
           /\ \A p \in DOMAIN Passes : /\ proved'[p] \subseteq Trials(p)'
                                       /\ proved[p] \subseteq proved'[p]
                                       /\ p # pass => proved'[p] = proved[p]
<1>1. pass \in DOMAIN Passes
  BY Here, PassesAre
<1>2. /\ proved \in [DOMAIN Passes -> SUBSET Positions]
      /\ \A p \in DOMAIN Passes : proved[p] \subseteq Trials(p)
      /\ at \in Positions
  BY DEF Progress
<1>3. /\ proved' \in [DOMAIN Passes -> SUBSET Positions]
      /\ \A p \in DOMAIN Passes : /\ proved'[p] \subseteq Trials(p)
                                  /\ proved[p] \subseteq proved'[p]
                                  /\ p # pass => proved'[p] = proved[p]
  BY <1>1, <1>2, ThisTrial DEF Proves
<1> QED
  BY <1>3, SameCase

LEMMA VerdictsSoFar ==
    ASSUME Progress
    PROVE  /\ Len(verdicts) = pass - 1 /\ DOMAIN verdicts = 1..(pass - 1)
           /\ \A p \in 1..(pass - 1) : p \in DOMAIN Passes
<1>1. Len(verdicts) = pass - 1 /\ pass \in 1..5
  BY DEF Progress, TypeOK
<1>2. DOMAIN verdicts = 1..Len(verdicts)
  BY LenProperties DEF Progress
<1> QED
  BY <1>1, <1>2, PassesAre

LEMMA SafeStaysEarned ==
    ASSUME Progress, ~Done, Same, Proves, UNCHANGED verdicts
    PROVE  SafeIsEarned'
<1> SUFFICES ASSUME NEW p \in DOMAIN verdicts, verdicts[p].status = "safe"
             PROVE  proved'[p] = Trials(p)'
  BY DEF SafeIsEarned, Trials
<1>1. p \in DOMAIN Passes /\ p # pass
  BY VerdictsSoFar, Here
<1>2. proved[p] = Trials(p)
  BY DEF Progress, SafeIsEarned, Trials
<1> QED
  BY <1>1, <1>2, ProvedGrows, SameCase

(* A call that only moves on in the plan.                                      *)
LEMMA ContinueKeeps ==
    ASSUME Progress, ~Done, Same, proved' = proved, Continue, Plan[step] \notin {"ask", "probe"}
    PROVE  Progress'
<1>1. UNCHANGED <<pass, at, outcomes, verdicts>> /\ step' = step + 1
  BY DEF Continue
<1>2. Plan' = Plan /\ Variants' = Variants /\ (Scoring' <=> Scoring) /\ (Done' <=> Done)
  BY <1>1, SamePass
<1>3. Channels' = Channels /\ NFixtures' = NFixtures /\ \A q : Trials(q)' = Trials(q)
  BY SameCase
<1>4. step' \in DOMAIN Plan'
  BY <1>1, <1>2, Here, PlanGoesOn
<1>5. TypeOK'
  BY <1>1, <1>2, <1>3, <1>4 DEF TypeOK, Progress, Same
<1>6. EarnedSoFar'
  BY <1>1, <1>2, <1>3 DEF EarnedSoFar, Progress, Decided
<1>7. SafeIsEarned'
  BY <1>1, SafeStaysEarned DEF Proves
<1> QED
  BY <1>1, <1>3, <1>5, <1>6, <1>7 DEF Progress

LEMMA TryVariantKeeps ==
    ASSUME Progress, ~Done, Same, Proves, at.variant < Len(Variants), TryVariant,
           Scoring => at \in proved'[pass]
    PROVE  Progress'
<1>0. /\ pass \in 1..4 /\ DOMAIN Variants = 1..Len(Variants) /\ Len(Variants) \in {1, 2}
      /\ at.variant \in 1..Len(Variants) /\ at = TrialAt(at.channel, at.fixture, at.variant)
      /\ at \in Positions /\ pass \in DOMAIN Passes
  BY Here, PassesAre DEF Progress
<1>1. /\ UNCHANGED <<pass, outcomes, verdicts>> /\ step' = 1
      /\ at' = [at EXCEPT !.variant = @ + 1]
  BY DEF TryVariant
<1>2. /\ at' \in Positions /\ at'.channel = at.channel /\ at'.fixture = at.fixture
      /\ at'.variant = at.variant + 1 /\ at'.variant \in 1..Len(Variants)
  BY <1>0, <1>1 DEF Positions
<1>3. Plan' = Plan /\ Variants' = Variants /\ (Scoring' <=> Scoring) /\ (Done' <=> Done)
  BY <1>1, SamePass
<1>4. Channels' = Channels /\ NFixtures' = NFixtures /\ \A q : Trials(q)' = Trials(q)
  BY SameCase
<1>5. step' \in DOMAIN Plan'
  BY <1>1, <1>3, Here, PlanDomain
<1>6. TypeOK'
  BY <1>0, <1>1, <1>2, <1>3, <1>4, <1>5 DEF TypeOK, Progress, Same
<1>7. EarnedSoFar'
  <2> SUFFICES ASSUME Scoring
               PROVE  /\ \A c \in DOMAIN Channels, f \in 1..NFixtures, v \in DOMAIN Variants :
                            Decided(c, f)' /\ outcomes[c][f] = "kept out" =>
                                TrialAt(c, f, v) \in proved'[pass]
                      /\ \A v \in DOMAIN Variants : v < at'.variant =>
                            TrialAt(at'.channel, at'.fixture, v) \in proved'[pass]
    BY <1>1, <1>3, <1>4 DEF EarnedSoFar, TrialAt
  <2>1. proved[pass] \subseteq proved'[pass]
    BY <1>0, ProvedGrows
  <2>2. ASSUME NEW c \in DOMAIN Channels, NEW f \in 1..NFixtures, NEW v \in DOMAIN Variants,
               Decided(c, f)', outcomes[c][f] = "kept out"
        PROVE  TrialAt(c, f, v) \in proved'[pass]
    <3>1. Decided(c, f)
      BY <1>2, <2>2 DEF Decided
    <3> QED
      BY <2>1, <2>2, <3>1 DEF Progress, EarnedSoFar
  <2>3. ASSUME NEW v \in DOMAIN Variants, v < at'.variant
        PROVE  TrialAt(at'.channel, at'.fixture, v) \in proved'[pass]
    <3>1. v < at.variant \/ v = at.variant
      BY <1>0, <1>2, <2>3
    <3>2. CASE v < at.variant
      BY <1>2, <2>1, <3>2 DEF Progress, EarnedSoFar
    <3>3. CASE v = at.variant
      BY <1>0, <1>2, <3>3
    <3> QED
      BY <3>1, <3>2, <3>3
  <2> QED
    BY <2>2, <2>3
<1>8. SafeIsEarned'
  BY <1>1, SafeStaysEarned
<1>9. /\ proved' \in [DOMAIN Passes -> SUBSET Positions]
      /\ \A p \in DOMAIN Passes : proved'[p] \subseteq Trials(p)'
  BY ProvedGrows
<1> QED
  BY <1>1, <1>2, <1>6, <1>7, <1>8, <1>9 DEF Progress

(* A pass that ends: its verdict is earned, and the next starts afresh.        *)
LEMMA EndPassKeeps ==
    ASSUME Progress, ~Done, Same, Proves, NEW v \in VerdictSet, EndPass(v),
           v.status = "safe" => proved'[pass] = Trials(pass)
    PROVE  Progress'
<1>0. pass \in 1..4 /\ pass \in DOMAIN Passes
  BY Here, PassesAre
<1>1. /\ verdicts' = Append(verdicts, v) /\ pass' = pass + 1 /\ at' = FirstTrial /\ step' = 1
      /\ outcomes' = << <<>> >>
  BY DEF EndPass
<1>2. Channels' = Channels /\ NFixtures' = NFixtures /\ \A q : Trials(q)' = Trials(q)
  BY SameCase
<1>3. /\ verdicts' \in Seq(VerdictSet) /\ Len(verdicts') = pass
      /\ DOMAIN verdicts' = 1..pass /\ verdicts'[pass] = v
      /\ \A p \in 1..(pass - 1) : verdicts'[p] = verdicts[p]
  <2>1. verdicts \in Seq(VerdictSet) /\ Len(verdicts) = pass - 1
    BY VerdictsSoFar DEF Progress
  <2>2. /\ verdicts' \in Seq(VerdictSet) /\ Len(verdicts') = Len(verdicts) + 1
        /\ \A p \in 1..Len(verdicts) : verdicts'[p] = verdicts[p]
        /\ verdicts'[Len(verdicts) + 1] = v
    BY <1>1, <2>1, AppendProperties
  <2>3. DOMAIN verdicts' = 1..Len(verdicts')
    BY <2>2, LenProperties
  <2> QED
    BY <1>0, <2>1, <2>2, <2>3
<1>4. /\ at' \in Positions /\ at'.channel = 1 /\ at'.fixture = 1 /\ at'.variant = 1
  BY <1>1 DEF FirstTrial, Positions
<1>5. /\ attack' = attack /\ attack' \in Attacks
      /\ kind' = kind /\ filler' = filler /\ kind \in Kinds /\ filler \in Fillers
  BY DEF Same, Progress, TypeOK
<1>6. Plan' \in Plans
  BY <1>5 DEF Plan, Plans, BleedPlan, UpdatePlan, FilterPlan, FilterHuntPlan, WritePlan,
              ProbePlan, Attacks
<1>7. step' \in DOMAIN Plan'
  BY <1>1, <1>6, PlanDomain
<1>8. 1 \in DOMAIN Variants' /\ 1 \in DOMAIN Channels /\ 1 \in 1..NFixtures
  <2>1. Variants' = VariantsOf(attack', Passes[pass'].mutate)
    BY DEF Variants
  <2>2. PICK n \in {1, 2} : DOMAIN Variants' = 1..n
    BY <2>1, VariantsAre
  <2> QED
    BY <2>2, Here
<1>9. outcomes' \in Seq(Seq(Outcomes)) /\ Len(outcomes') = 1 /\ Len(outcomes'[1]) = 0
  BY <1>1
<1>10. TypeOK'
  <2>1. pass' \in 1..5 /\ Len(verdicts') = pass' - 1
    BY <1>0, <1>1, <1>3
  <2>2. \A c \in 1..(at'.channel - 1) : Len(outcomes'[c]) = NFixtures'
    BY <1>4
  <2> QED
    BY <1>2, <1>4, <1>5, <1>7, <1>8, <1>9, <2>1, <2>2 DEF TypeOK
<1>11. EarnedSoFar'
  <2>1. \A c \in DOMAIN Channels, f \in 1..NFixtures : ~Decided(c, f)'
    BY <1>4, Here DEF Decided
  <2>2. \A w \in DOMAIN Variants' : ~(w < at'.variant)
    <3>1. PICK n \in {1, 2} : DOMAIN Variants' = 1..n
      BY VariantsAre DEF Variants
    <3> QED
      BY <1>4, <3>1
  <2> QED
    BY <1>2, <2>1, <2>2 DEF EarnedSoFar
<1>12. SafeIsEarned'
  <2> SUFFICES ASSUME NEW p \in DOMAIN verdicts', verdicts'[p].status = "safe"
               PROVE  proved'[p] = Trials(p)
    BY <1>2 DEF SafeIsEarned, Trials
  <2>1. p \in 1..(pass - 1) \/ p = pass
    BY <1>0, <1>3
  <2>2. CASE p \in 1..(pass - 1)
    <3>1. p \in DOMAIN Passes /\ p # pass /\ p \in DOMAIN verdicts
      BY <1>0, <2>2, VerdictsSoFar
    <3>2. proved[p] = Trials(p)
      BY <1>3, <2>2, <3>1 DEF Progress, SafeIsEarned, Trials
    <3> QED
      BY <3>1, <3>2, ProvedGrows
  <2>3. CASE p = pass
    BY <1>3, <2>3
  <2> QED
    BY <2>1, <2>2, <2>3
<1>13. /\ proved' \in [DOMAIN Passes -> SUBSET Positions]
       /\ \A p \in DOMAIN Passes : proved'[p] \subseteq Trials(p)'
  BY ProvedGrows
<1> QED
  BY <1>3, <1>4, <1>9, <1>10, <1>11, <1>12, <1>13 DEF Progress

(* The trial after this one: the next fixture, or the next channel's first.    *)
Follows(ch, fx, ch2, fx2, nf) ==
    \/ fx < nf /\ ch2 = ch /\ fx2 = fx + 1
    \/ fx = nf /\ ch2 = ch + 1 /\ fx2 = 1

LEMMA NextFixtureIs ==
    ASSUME Progress, ~Done
    PROVE  /\ NextFixture \in Positions /\ NextFixture.variant = 1
           /\ NextFixture.channel \in Nat /\ NextFixture.fixture \in 1..NFixtures
           /\ Follows(at.channel, at.fixture, NextFixture.channel, NextFixture.fixture, NFixtures)
<1> DEFINE ch == at.channel
           fx == at.fixture
           nf == NFixtures
           next == NextFixture
<1>1. at \in Positions /\ fx \in 1..nf /\ nf \in Nat /\ ch \in Nat
  BY Here DEF Progress, Positions
<1>2. next = IF fx < nf THEN TrialAt(ch, fx + 1, 1) ELSE TrialAt(ch + 1, 1, 1)
  BY DEF NextFixture, TrialAt
<1> HIDE DEF ch, fx, nf, next
<1>3. CASE fx < nf
  <2>1. /\ next.channel = ch /\ next.fixture = fx + 1 /\ next.variant = 1
        /\ next = [channel |-> ch, fixture |-> fx + 1, variant |-> 1]
    BY <1>2, <1>3 DEF TrialAt
  <2>2. fx + 1 \in 1..nf /\ fx + 1 \in Nat /\ 1 \in Nat
    BY <1>1, <1>3
  <2> QED
    BY <1>1, <1>3, <2>1, <2>2 DEF Positions, Follows, ch, fx, nf, next
<1>4. CASE ~(fx < nf)
  <2>1. /\ next.channel = ch + 1 /\ next.fixture = 1 /\ next.variant = 1
        /\ next = [channel |-> ch + 1, fixture |-> 1, variant |-> 1]
    BY <1>2, <1>4 DEF TrialAt
  <2>2. fx = nf /\ 1 \in 1..nf /\ ch + 1 \in Nat /\ 1 \in Nat
    BY <1>1, <1>4
  <2> QED
    BY <1>1, <2>1, <2>2 DEF Positions, Follows, ch, fx, nf, next
<1> QED
  BY <1>3, <1>4

Comes(nf, ch, fx, ch2, fx2, c, f) ==
    /\ nf \in Nat /\ ch \in Nat /\ fx \in 1..nf /\ ch2 \in Nat /\ fx2 \in 1..nf
    /\ Follows(ch, fx, ch2, fx2, nf) /\ c \in Nat /\ 1 <= c /\ f \in 1..nf
    /\ c < ch2 \/ (c = ch2 /\ f < fx2)
LastOrBefore(ch, fx, c, f) ==
    \/ c \in 1..(ch - 1)
    \/ c = ch /\ f \in 1..(fx - 1)
    \/ c = ch /\ f = fx

LEMMA DecidedNext ==
    ASSUME NEW nf, NEW ch, NEW fx, NEW ch2, NEW fx2, NEW c, NEW f,
           Comes(nf, ch, fx, ch2, fx2, c, f)
    PROVE  LastOrBefore(ch, fx, c, f)
BY DEF Comes, Follows, LastOrBefore

(* Numbers. *)
LEMMA UpTo ==
    ASSUME NEW n \in Nat, NEW c \in 1..n
    PROVE  c \in 1..(n - 1) \/ c = n
OBVIOUS

LEMMA LessIsOther ==
    ASSUME NEW n \in Nat, NEW c \in 1..n, c < n
    PROVE  c # n
OBVIOUS

LEMMA TopIn ==
    ASSUME NEW n \in Nat, 1 <= n
    PROVE  n \in 1..n
OBVIOUS

LEMMA Below ==
    ASSUME NEW n \in Nat, NEW c \in 1..(n - 1)
    PROVE  c < n /\ c \in 1..n
OBVIOUS

LEMMA NotAbove ==
    ASSUME NEW a \in Nat, NEW b \in Nat, ~(a > b)
    PROVE  a <= b
OBVIOUS

LEMMA NotBelowOne ==
    ASSUME NEW n \in {1, 2}, NEW v \in 1..n, NEW w, w = 1
    PROVE  ~(v < w)
OBVIOUS

LEMMA LastVariant ==
    ASSUME NEW n \in {1, 2}, NEW v \in 1..n, NEW w \in 1..n, ~(w < n)
    PROVE  v < w \/ v = w
OBVIOUS

LEMMA Ends ==
    ASSUME NEW n \in Nat, n # 0
    PROVE  1 \in 1..n /\ n \in 1..n
OBVIOUS

LEMMA FixturesWithin ==
    ASSUME NEW n \in 1..5, NEW f \in 1..n
    PROVE  f \in 1..5
OBVIOUS

LEMMA OneMore ==
    ASSUME NEW n \in Nat
    PROVE  n + 1 \in Nat /\ n + 1 > 0
OBVIOUS

LEMMA OneOnOneBack ==
    ASSUME NEW n \in Nat, NEW j \in 1..(n + 1 - 1)
    PROVE  j \in 1..n
OBVIOUS

LEMMA Positive ==
    ASSUME NEW n \in Nat, NEW c \in 1..n
    PROVE  c \in Nat /\ 1 <= c /\ 1 <= n
OBVIOUS

(* The outcomes of a pass: of every channel before this one all, of this one     *)
(* those before this fixture.                                               *)
OutcomesTo(cells, ch, fx, nf) ==
    /\ cells \in Seq(Seq(Outcomes)) /\ Len(cells) = ch
    /\ Len(cells[ch]) = fx - 1
    /\ \A c \in 1..(ch - 1) : Len(cells[c]) = nf

Grown(old, ch, o) == [old EXCEPT ![ch] = Append(@, o)]
Opened(cells, ch, ch2) == IF ch2 > ch THEN Append(cells, <<>>) ELSE cells

Extends(new, old, ch, fx, o) ==
    /\ \A c \in 1..(ch - 1) : new[c] = old[c]
    /\ \A f \in 1..(fx - 1) : new[ch][f] = old[ch][f]
    /\ new[ch][fx] = o

Growing(old, ch, fx, nf, o, cells) ==
    /\ ch \in Nat /\ 1 <= ch /\ fx \in Nat /\ 1 <= fx /\ OutcomesTo(old, ch, fx, nf)
    /\ o \in Outcomes /\ cells = Grown(old, ch, o)
HasGrown(cells, old, ch, fx, o) ==
    /\ cells \in Seq(Seq(Outcomes)) /\ Len(cells) = ch /\ Len(cells[ch]) = fx
    /\ Extends(cells, old, ch, fx, o)

LEMMA CellsAre ==
    ASSUME NEW nf, NEW ch, NEW fx, NEW old, NEW o, NEW cells,
           Growing(old, ch, fx, nf, o, cells)
    PROVE  HasGrown(cells, old, ch, fx, o)
<1>a. /\ ch \in Nat /\ 1 <= ch /\ fx \in Nat /\ 1 <= fx /\ OutcomesTo(old, ch, fx, nf)
      /\ o \in Outcomes /\ cells = Grown(old, ch, o)
  BY DEF Growing
<1> DEFINE mine == old[ch]
           new == Append(mine, o)
<1>1. old \in Seq(Seq(Outcomes)) /\ Len(old) = ch /\ Len(mine) = fx - 1 /\ ch \in 1..Len(old)
  BY <1>a, TopIn DEF OutcomesTo
<1>2. mine \in Seq(Outcomes)
  BY <1>1, ElementOfSeq
<1>0. cells = [old EXCEPT ![ch] = new]
  BY <1>a DEF Grown
<1> HIDE DEF mine
<1>3. /\ new \in Seq(Outcomes) /\ Len(new) = Len(mine) + 1
      /\ (\A f \in 1..Len(mine) : new[f] = mine[f]) /\ new[Len(mine) + 1] = o
  BY <1>2, <1>a, AppendProperties
<1>4. Len(mine) + 1 = fx
  BY <1>1, <1>a
<1> HIDE DEF new
<1>5. /\ [old EXCEPT ![ch] = new] \in Seq(Seq(Outcomes)) /\ Len([old EXCEPT ![ch] = new]) = Len(old)
      /\ \A c \in 1..Len(old) : [old EXCEPT ![ch] = new][c] = IF c = ch THEN new ELSE old[c]
  BY <1>1, <1>3, ExceptSeq
<1>6. /\ cells \in Seq(Seq(Outcomes)) /\ Len(cells) = ch
      /\ \A c \in 1..ch : cells[c] = IF c = ch THEN new ELSE old[c]
  BY <1>0, <1>1, <1>5
<1>7. cells[ch] = new
  BY <1>1, <1>6
<1>8. \A c \in 1..(ch - 1) : cells[c] = old[c]
  <2> SUFFICES ASSUME NEW c \in 1..(ch - 1) PROVE cells[c] = old[c]
    OBVIOUS
  <2>1. c < ch /\ c \in 1..ch
    BY <1>a, Below
  <2>2. c # ch
    BY <1>a, <2>1, LessIsOther
  <2> QED
    BY <1>6, <2>1, <2>2
<1>9. /\ Len(cells[ch]) = fx
      /\ (\A f \in 1..(fx - 1) : cells[ch][f] = mine[f]) /\ cells[ch][fx] = o
  BY <1>1, <1>3, <1>4, <1>7
<1> QED
  BY <1>6, <1>8, <1>9 DEF mine, HasGrown, Extends

(* A fixture decided, with another to come.                                   *)
DecidedAndOn(nf, ch, fx, ch2, fx2, old, o, cells, new) ==
    /\ nf \in Nat /\ ch \in Nat /\ 1 <= ch /\ fx \in 1..nf /\ ch2 \in Nat /\ fx2 \in 1..nf
    /\ Follows(ch, fx, ch2, fx2, nf)
    /\ OutcomesTo(old, ch, fx, nf) /\ o \in Outcomes
    /\ cells = Grown(old, ch, o) /\ new = Opened(cells, ch, ch2)

LEMMA NextOutcomes ==
    ASSUME NEW nf, NEW ch, NEW fx, NEW ch2, NEW fx2, NEW old, NEW o, NEW cells, NEW new,
           DecidedAndOn(nf, ch, fx, ch2, fx2, old, o, cells, new)
    PROVE  OutcomesTo(new, ch2, fx2, nf) /\ Extends(new, old, ch, fx, o)
<1>a. /\ nf \in Nat /\ ch \in Nat /\ 1 <= ch /\ fx \in 1..nf /\ ch2 \in Nat /\ fx2 \in 1..nf
      /\ Follows(ch, fx, ch2, fx2, nf) /\ o \in Outcomes
      /\ OutcomesTo(old, ch, fx, nf) /\ cells = Grown(old, ch, o) /\ new = Opened(cells, ch, ch2)
  BY DEF DecidedAndOn
<1>b. fx \in Nat /\ 1 <= fx
  BY <1>a, Positive
<1>0. /\ cells \in Seq(Seq(Outcomes)) /\ Len(cells) = ch
      /\ \A c \in 1..(ch - 1) : cells[c] = old[c]
      /\ Len(cells[ch]) = fx
      /\ \A f \in 1..(fx - 1) : cells[ch][f] = old[ch][f]
      /\ cells[ch][fx] = o
  <2>1. Growing(old, ch, fx, nf, o, cells)
    BY <1>a, <1>b DEF Growing
  <2>2. HasGrown(cells, old, ch, fx, o)
    BY <2>1, CellsAre
  <2> QED
    BY <2>2 DEF HasGrown, Extends
<1>1. \A c \in 1..(ch - 1) : Len(cells[c]) = nf
  BY <1>0, <1>a DEF OutcomesTo
<1>2. CASE fx < nf /\ ch2 = ch /\ fx2 = fx + 1
  <2>1. new = cells /\ fx2 - 1 = fx
    BY <1>a, <1>b, <1>2 DEF Opened
  <2> QED
    BY <1>0, <1>1, <1>2, <2>1 DEF OutcomesTo, Extends
<1>3. CASE fx = nf /\ ch2 = ch + 1 /\ fx2 = 1
  <2>1. new = Append(cells, <<>>)
    BY <1>a, <1>3 DEF Opened
  <2>2. <<>> \in Seq(Outcomes) /\ Len(<<>>) = 0
    OBVIOUS
  <2>3. /\ new \in Seq(Seq(Outcomes)) /\ Len(new) = ch + 1
        /\ (\A c \in 1..ch : new[c] = cells[c]) /\ new[ch + 1] = <<>>
    BY <1>0, <2>1, <2>2, AppendProperties
  <2>4. /\ \A c \in 1..ch : c \in 1..(ch - 1) \/ c = ch
        /\ ch \in 1..ch /\ \A c \in 1..(ch - 1) : c \in 1..ch
    BY <1>a, UpTo, TopIn, Below
  <2>a. ch2 - 1 = ch /\ fx2 - 1 = 0
    BY <1>a, <1>3
  <2>5. \A c \in 1..ch : Len(new[c]) = nf
    BY <1>0, <1>1, <1>3, <2>3, <2>4
  <2>6. OutcomesTo(new, ch2, fx2, nf)
    BY <1>3, <2>2, <2>3, <2>a, <2>5 DEF OutcomesTo
  <2>7. Extends(new, old, ch, fx, o)
    BY <1>0, <2>3, <2>4 DEF Extends
  <2> QED
    BY <2>6, <2>7
<1> QED
  BY <1>a, <1>2, <1>3 DEF Follows

LEMMA OutcomesSoFar ==
    ASSUME Progress, ~Done, Scoring
    PROVE  OutcomesTo(outcomes, at.channel, at.fixture, NFixtures)
BY DEF Progress, TypeOK, OutcomesTo

(* The next trial of the same pass; a scored fixture left its outcome, earned   *)
(* if it says that the attacker was kept out.                                 *)
LEMMA NextTrialKeeps ==
    ASSUME Progress, ~Done, Same, Proves, UNCHANGED <<pass, verdicts>>,
           NextFixture.channel <= Len(Channels), at' = NextFixture, step' = 1,
           outcomes' \in Seq(Seq(Outcomes)),
           Scoring => OutcomesTo(outcomes', at'.channel, at'.fixture, NFixtures),
           Scoring => EarnedSoFar'
    PROVE  Progress'
<1>0. /\ pass \in 1..4 /\ pass \in DOMAIN Passes /\ Plan \in Plans
      /\ DOMAIN Variants = 1..Len(Variants) /\ Len(Variants) \in {1, 2}
      /\ DOMAIN Channels = 1..Len(Channels) /\ Len(Channels) \in Nat
      /\ at.channel \in 1..Len(Channels)
  BY Here, PassesAre
<1>1. /\ at' \in Positions /\ at'.variant = 1 /\ at'.fixture \in 1..NFixtures
      /\ at'.channel \in 1..Len(Channels)
  <2>1. /\ at' \in Positions /\ at'.variant = 1 /\ at'.channel \in Nat /\ at'.fixture \in 1..NFixtures
        /\ at'.channel = at.channel \/ at'.channel = at.channel + 1
        /\ at'.channel <= Len(Channels)
    BY NextFixtureIs DEF Follows
  <2>2. at.channel \in Nat /\ 1 <= at.channel
    BY <1>0
  <2>3. 1 <= at'.channel
    BY <2>1, <2>2
  <2> QED
    BY <1>0, <2>1, <2>3
<1>2. Plan' = Plan /\ Variants' = Variants /\ (Scoring' <=> Scoring) /\ (Done' <=> Done)
  BY SamePass
<1>3. Channels' = Channels /\ NFixtures' = NFixtures /\ \A q : Trials(q)' = Trials(q)
  BY SameCase
<1>4. step' \in DOMAIN Plan'
  BY <1>0, <1>2, PlanDomain
<1>5. 1 \in DOMAIN Variants
  BY <1>0
<1>6. TypeOK'
  BY <1>0, <1>1, <1>2, <1>3, <1>4, <1>5 DEF TypeOK, Progress, Same, OutcomesTo
<1>7. EarnedSoFar'
  BY <1>2 DEF EarnedSoFar
<1>8. SafeIsEarned'
  BY SafeStaysEarned
<1>9. /\ proved' \in [DOMAIN Passes -> SUBSET Positions]
      /\ \A p \in DOMAIN Passes : proved'[p] \subseteq Trials(p)'
  BY ProvedGrows
<1>10. verdicts' \in Seq(VerdictSet)
  BY DEF Progress
<1> QED
  BY <1>1, <1>6, <1>7, <1>8, <1>9, <1>10 DEF Progress

(* A pass whose every cell was kept out was shown every trial.                  *)
LEMMA AllKeptOut ==
    ASSUME NEW cells \in Seq(Seq(Outcomes)), Aggregate(cells) = "safe",
           NEW c \in 1..Len(cells), NEW f \in 1..Len(cells[c])
    PROVE  cells[c][f] = "kept out"
<1>1. cells[c] \in Seq(Outcomes)
  BY ElementOfSeq
<1>2. cells[c][f] \in Outcomes
  BY <1>1, ElementOfSeq
<1>3. c \in DOMAIN cells /\ f \in DOMAIN cells[c]
  BY <1>1, LenProperties
<1>4. cells[c][f] \in UNION {ToSet(cells[d]) : d \in DOMAIN cells}
  BY <1>3 DEF ToSet
<1>5. /\ "surfaced" \notin UNION {ToSet(cells[d]) : d \in DOMAIN cells}
      /\ "no verdict" \notin UNION {ToSet(cells[d]) : d \in DOMAIN cells}
  BY DEF Aggregate
<1> QED
  BY <1>2, <1>4, <1>5 DEF Outcomes

LEMMA AggregateType ==
    ASSUME NEW cells \in Seq(Seq(Outcomes))
    PROVE  /\ Verdict(Aggregate(cells), cells, <<>>) \in VerdictSet
           /\ Verdict(Aggregate(cells), cells, <<>>).status = Aggregate(cells)
BY DEF Verdict, Aggregate, VerdictSet

(* Of the fixtures decided so far, whose outcomes are given, each that says the  *)
(* attacker was kept out has its trials among those shown.                    *)
EarnedTo(cells, shown, ch, fx, n, nf, vs) ==
    \A c \in 1..n, f \in 1..nf, v \in vs :
        (c < ch \/ (c = ch /\ f < fx)) /\ cells[c][f] = "kept out" => TrialAt(c, f, v) \in shown

EarnedBefore(n, nf, ch, fx, ch2, fx2, vs, shown, shown2, old, o, new) ==
    /\ n \in Nat /\ nf \in Nat /\ ch \in Nat /\ fx \in 1..nf /\ ch2 \in Nat /\ fx2 \in 1..nf
    /\ Follows(ch, fx, ch2, fx2, nf) /\ shown \subseteq shown2
    /\ EarnedTo(old, shown, ch, fx, n, nf, vs) /\ Extends(new, old, ch, fx, o)
    /\ o = "kept out" => \A v \in vs : TrialAt(ch, fx, v) \in shown2

LEMMA EarnedNext ==
    ASSUME NEW n, NEW nf, NEW ch, NEW fx, NEW ch2, NEW fx2, NEW vs, NEW shown, NEW shown2,
           NEW old, NEW o, NEW new,
           EarnedBefore(n, nf, ch, fx, ch2, fx2, vs, shown, shown2, old, o, new)
    PROVE  EarnedTo(new, shown2, ch2, fx2, n, nf, vs)
<1>0. /\ n \in Nat /\ nf \in Nat /\ ch \in Nat /\ fx \in 1..nf /\ ch2 \in Nat /\ fx2 \in 1..nf
      /\ Follows(ch, fx, ch2, fx2, nf) /\ shown \subseteq shown2
      /\ EarnedTo(old, shown, ch, fx, n, nf, vs) /\ Extends(new, old, ch, fx, o)
      /\ o = "kept out" => \A v \in vs : TrialAt(ch, fx, v) \in shown2
  BY DEF EarnedBefore
<1>a. fx \in Nat
  BY <1>0, Positive
<1> SUFFICES ASSUME NEW c \in 1..n, NEW f \in 1..nf, NEW v \in vs,
                    c < ch2 \/ (c = ch2 /\ f < fx2), new[c][f] = "kept out"
             PROVE  TrialAt(c, f, v) \in shown2
  BY DEF EarnedTo
<1>1. \/ c \in 1..(ch - 1)
      \/ c = ch /\ f \in 1..(fx - 1)
      \/ c = ch /\ f = fx
  <2>1. c \in Nat /\ 1 <= c
    BY <1>0, Positive
  <2> QED
    <3>1. Comes(nf, ch, fx, ch2, fx2, c, f)
      BY <1>0, <2>1 DEF Comes
    <3>2. LastOrBefore(ch, fx, c, f)
      BY <3>1, DecidedNext
    <3> QED
      BY <3>2 DEF LastOrBefore
<1>2. CASE c \in 1..(ch - 1)
  <2>1. c < ch
    BY <1>0, <1>2, Below
  <2>2. old[c][f] = "kept out"
    BY <1>0, <1>2 DEF Extends
  <2> QED
    BY <1>0, <2>1, <2>2 DEF EarnedTo
<1>3. CASE c = ch /\ f \in 1..(fx - 1)
  <2>1. f < fx
    BY <1>a, <1>3, Below
  <2>2. old[c][f] = "kept out"
    BY <1>0, <1>3 DEF Extends
  <2> QED
    BY <1>0, <1>3, <2>1, <2>2 DEF EarnedTo
<1>4. CASE c = ch /\ f = fx
  BY <1>0, <1>4 DEF Extends
<1> QED
  BY <1>1, <1>2, <1>3, <1>4

LEMMA AllDecided ==
    ASSUME NEW n \in Nat, NEW nf \in Nat, NEW ch \in 1..n, NEW fx \in 1..nf, NEW ch2 \in Nat, NEW fx2 \in Nat,
           Follows(ch, fx, ch2, fx2, nf), ch2 > n
    PROVE  ch = n /\ fx = nf
BY DEF Follows

(* The pass that ends with its last fixture: each cell has an outcome, and if     *)
(* each was kept out, every trial was shown.                                  *)
LastDecided(n, nf, vs, shown, shown2, old, o, cells) ==
    /\ n \in Nat /\ nf \in Nat /\ 1 <= n /\ 1 <= nf /\ shown \subseteq shown2
    /\ OutcomesTo(old, n, nf, nf) /\ EarnedTo(old, shown, n, nf, n, nf, vs)
    /\ o \in Outcomes /\ cells = Grown(old, n, o)
    /\ o = "kept out" => \A v \in vs : TrialAt(n, nf, v) \in shown2

LEMMA EarnedAll ==
    ASSUME NEW n, NEW nf, NEW vs, NEW shown, NEW shown2, NEW old, NEW o, NEW cells,
           LastDecided(n, nf, vs, shown, shown2, old, o, cells),
           Aggregate(cells) = "safe"
    PROVE  \A c \in 1..n, f \in 1..nf, v \in vs : TrialAt(c, f, v) \in shown2
<1>0. /\ n \in Nat /\ nf \in Nat /\ 1 <= n /\ 1 <= nf /\ shown \subseteq shown2
      /\ OutcomesTo(old, n, nf, nf) /\ EarnedTo(old, shown, n, nf, n, nf, vs)
      /\ o \in Outcomes /\ cells = Grown(old, n, o)
      /\ o = "kept out" => \A v \in vs : TrialAt(n, nf, v) \in shown2
  BY DEF LastDecided
<1>a. n \in 1..n /\ nf \in 1..nf
  BY <1>0, TopIn
<1>1. /\ cells \in Seq(Seq(Outcomes)) /\ Len(cells) = n
      /\ \A c \in 1..(n - 1) : cells[c] = old[c]
      /\ Len(cells[n]) = nf
      /\ \A f \in 1..(nf - 1) : cells[n][f] = old[n][f]
      /\ cells[n][nf] = o
  <2>1. Growing(old, n, nf, nf, o, cells)
    BY <1>0 DEF Growing
  <2>2. HasGrown(cells, old, n, nf, o)
    BY <2>1, CellsAre
  <2> QED
    BY <2>2 DEF HasGrown, Extends
<1>2. ASSUME NEW c \in 1..n PROVE Len(cells[c]) = nf
  <2>1. CASE c = n
    BY <1>1, <2>1
  <2>2. CASE c \in 1..(n - 1)
    <3>1. Len(old[c]) = nf
      BY <1>0, <2>2 DEF OutcomesTo
    <3> QED
      BY <1>1, <2>2, <3>1
  <2> QED
    BY <1>0, <2>1, <2>2, UpTo
<1>3. ASSUME NEW c \in 1..n, NEW f \in 1..nf PROVE cells[c][f] = "kept out"
  <2>1. c \in 1..Len(cells) /\ f \in 1..Len(cells[c])
    BY <1>1, <1>2
  <2> QED
    BY <1>1, <2>1, AllKeptOut
<1> SUFFICES ASSUME NEW c \in 1..n, NEW f \in 1..nf, NEW v \in vs
             PROVE  TrialAt(c, f, v) \in shown2
  OBVIOUS
<1>5. CASE c \in 1..(n - 1)
  <2>1. c < n
    BY <1>0, <1>5, Below
  <2>2. cells[c] = old[c] /\ cells[c][f] = "kept out"
    BY <1>1, <1>3, <1>5
  <2> QED
    BY <1>0, <2>1, <2>2 DEF EarnedTo
<1>6. CASE c = n /\ f \in 1..(nf - 1)
  <2>1. f < nf
    BY <1>0, <1>6, Below
  <2>2. old[c][f] = "kept out"
    BY <1>1, <1>3, <1>6
  <2> QED
    BY <1>0, <1>6, <2>1, <2>2 DEF EarnedTo
<1>7. CASE c = n /\ f = nf
  BY <1>0, <1>1, <1>3, <1>a, <1>7
<1> QED
  BY <1>0, <1>5, <1>6, <1>7, UpTo

LEMMA EarnedHere ==
    ASSUME Progress, ~Done, Scoring
    PROVE  EarnedTo(outcomes, proved[pass], at.channel, at.fixture, Len(Channels), NFixtures,
                    DOMAIN Variants)
BY Here DEF Progress, EarnedSoFar, Decided, EarnedTo

LEMMA AllTrials ==
    ASSUME Progress, ~Done, NEW shown, shown \subseteq Trials(pass),
           \A c \in 1..Len(Channels), f \in 1..NFixtures, v \in DOMAIN Variants :
               TrialAt(c, f, v) \in shown
    PROVE  shown = Trials(pass)
<1> SUFFICES ASSUME NEW t \in Trials(pass) PROVE t \in shown
  OBVIOUS
<1>1. /\ t.channel \in DOMAIN Channels /\ t.fixture \in 1..NFixtures /\ t.variant \in DOMAIN Variants
      /\ t = TrialAt(t.channel, t.fixture, t.variant)
  BY DEF Trials, TrialAt, Variants
<1>2. DOMAIN Channels = 1..Len(Channels)
  BY Here
<1> QED
  BY <1>1, <1>2

LEMMA ChannelAndFixture ==
    ASSUME Progress, ~Done
    PROVE  /\ Len(Channels) \in Nat /\ NFixtures \in Nat /\ 1 <= Len(Channels) /\ 1 <= NFixtures
           /\ at.channel \in 1..Len(Channels) /\ at.fixture \in 1..NFixtures
           /\ at.channel \in Nat /\ at.fixture \in Nat /\ 1 <= at.channel /\ 1 <= at.fixture
<1>1. /\ Len(Channels) \in Nat /\ NFixtures \in 1..5
      /\ at.channel \in 1..Len(Channels) /\ at.fixture \in 1..NFixtures
  BY Here
<1>2. NFixtures \in Nat
  BY <1>1, Positive
<1> QED
  BY <1>1, <1>2, Positive

LEMMA DecideKeeps ==
    ASSUME Progress, ~Done, Scoring, Same, Proves, NEW o \in Outcomes, Decide(o),
           o = "kept out" =>
               \A v \in DOMAIN Variants : TrialAt(at.channel, at.fixture, v) \in proved'[pass]
    PROVE  Progress'
<1> DEFINE ch == at.channel
           fx == at.fixture
           nf == NFixtures
           n == Len(Channels)
           ch2 == NextFixture.channel
           fx2 == NextFixture.fixture
           vs == DOMAIN Variants
           cells == Grown(outcomes, at.channel, o)
           shown == proved[pass]
           shown2 == proved'[pass]
<1>0. /\ n \in Nat /\ nf \in Nat /\ 1 <= n /\ 1 <= nf
      /\ ch \in 1..n /\ fx \in 1..nf /\ ch \in Nat /\ fx \in Nat /\ 1 <= ch /\ 1 <= fx
  BY ChannelAndFixture
<1>1. ch2 \in Nat /\ fx2 \in 1..nf /\ Follows(ch, fx, ch2, fx2, nf)
  BY NextFixtureIs
<1>2. OutcomesTo(outcomes, ch, fx, nf) /\ cells = Grown(outcomes, ch, o)
  BY OutcomesSoFar
<1>3. \/ ch2 > n /\ EndPass(Verdict(Aggregate(cells), cells, <<>>))
      \/ /\ ~(ch2 > n)
         /\ at' = NextFixture /\ step' = 1 /\ UNCHANGED <<pass, verdicts>>
         /\ outcomes' = Opened(cells, ch, ch2)
  BY DEF Decide, Grown, Opened
<1>4. EarnedTo(outcomes, shown, ch, fx, n, nf, vs)
  BY EarnedHere
<1>5. pass \in DOMAIN Passes /\ shown \subseteq shown2 /\ shown2 \subseteq Trials(pass)
  <2>1. pass \in DOMAIN Passes
    BY Here, PassesAre
  <2>2. \A p \in DOMAIN Passes : proved[p] \subseteq proved'[p] /\ proved'[p] \subseteq Trials(p)
    BY ProvedGrows, SameCase
  <2> QED
    BY <2>1, <2>2
<1>6. o = "kept out" => \A v \in vs : TrialAt(ch, fx, v) \in shown2
  OBVIOUS
<1> HIDE DEF ch, fx, nf, n, ch2, fx2, vs, cells, shown, shown2
<1>7. CASE ch2 > n /\ EndPass(Verdict(Aggregate(cells), cells, <<>>))
  <2>1. ch = n /\ fx = nf
    <3>1. fx2 \in Nat
      BY <1>0, <1>1, Positive
    <3> QED
      BY <1>0, <1>1, <1>7, <3>1, AllDecided
  <2>2. cells \in Seq(Seq(Outcomes))
    <3>1. Growing(outcomes, ch, fx, nf, o, cells)
      BY <1>0, <1>2 DEF Growing
    <3> QED
      BY <3>1, CellsAre DEF HasGrown
  <2>3. ASSUME Aggregate(cells) = "safe"
        PROVE  shown2 = Trials(pass)
    <3>0. LastDecided(n, nf, vs, shown, shown2, outcomes, o, cells)
      BY <1>0, <1>2, <1>4, <1>5, <1>6, <2>1 DEF LastDecided
    <3>1. \A c \in 1..n, f \in 1..nf, v \in vs : TrialAt(c, f, v) \in shown2
      BY <3>0, <2>3, EarnedAll
    <3> QED
      BY <1>5, <3>1, AllTrials DEF n, nf, vs
  <2>4. /\ Verdict(Aggregate(cells), cells, <<>>) \in VerdictSet
        /\ Verdict(Aggregate(cells), cells, <<>>).status = Aggregate(cells)
    BY <2>2, AggregateType
  <2> QED
    BY <1>7, <2>3, <2>4, EndPassKeeps DEF shown2
<1>8. CASE /\ ~(ch2 > n)
           /\ at' = NextFixture /\ step' = 1 /\ UNCHANGED <<pass, verdicts>>
           /\ outcomes' = Opened(cells, ch, ch2)
  <2>1. OutcomesTo(outcomes', ch2, fx2, nf) /\ Extends(outcomes', outcomes, ch, fx, o)
    <3>1. DecidedAndOn(nf, ch, fx, ch2, fx2, outcomes, o, cells, outcomes')
      BY <1>0, <1>1, <1>2, <1>8 DEF DecidedAndOn
    <3> QED
      BY <3>1, NextOutcomes
  <2>2. EarnedTo(outcomes', shown2, ch2, fx2, n, nf, vs)
    <3>1. EarnedBefore(n, nf, ch, fx, ch2, fx2, vs, shown, shown2, outcomes, o, outcomes')
      BY <1>0, <1>1, <1>4, <1>5, <1>6, <2>1 DEF EarnedBefore
    <3> QED
      BY <3>1, EarnedNext
  <2>3. at'.channel = ch2 /\ at'.fixture = fx2 /\ at'.variant = 1
    BY <1>8, NextFixtureIs DEF ch2, fx2
  <2>4. /\ Variants' = Variants /\ Channels' = Channels /\ NFixtures' = NFixtures
        /\ pass' = pass
    BY <1>8, SamePass, SameCase
  <2>5. EarnedSoFar'
    <3>1. \A v \in DOMAIN Variants : ~(v < at'.variant)
      BY <2>3, Here, NotBelowOne
    <3>2. \A c \in 1..Len(Channels), f \in 1..NFixtures, v \in DOMAIN Variants :
             Decided(c, f)' /\ outcomes'[c][f] = "kept out" => TrialAt(c, f, v) \in proved'[pass]
      BY <2>2, <2>3 DEF Decided, EarnedTo, nf, n, vs, shown2
    <3>3. DOMAIN Channels = 1..Len(Channels)
      BY Here
    <3> QED
      BY <2>4, <3>1, <3>2, <3>3 DEF EarnedSoFar, TrialAt
  <2>6. /\ outcomes' \in Seq(Seq(Outcomes))
        /\ OutcomesTo(outcomes', at'.channel, at'.fixture, NFixtures)
    BY <2>1, <2>3 DEF OutcomesTo, nf
  <2>7. NextFixture.channel <= Len(Channels)
    <3>1. ch2 <= n
      BY <1>0, <1>1, <1>8, NotAbove
    <3> QED
      BY <3>1 DEF ch2, n
  <2> QED
    BY <1>8, <2>5, <2>6, <2>7, NextTrialKeeps
<1> QED
  BY <1>3, <1>7, <1>8

-----------------------------------------------------------------------------
(* How a trial ends. *)

LEMMA EmptyVerdict ==
    ASSUME NEW status \in {"n/a", "none", "aborted"}
    PROVE  Verdict(status, <<>>, <<>>) \in VerdictSet /\ Verdict(status, <<>>, <<>>).status = status
BY DEF Verdict, VerdictSet

LEMMA HuntOnKeeps ==
    ASSUME Progress, ~Done, ~Scoring, Same, Proves, HuntOn
    PROVE  Progress'
<1>1. CASE at.variant < Len(Variants) /\ TryVariant
  BY <1>1, TryVariantKeeps
<1>2. CASE EndPass(Verdict("none", <<>>, <<>>))
  BY <1>2, EmptyVerdict, EndPassKeeps
<1>3. CASE /\ ~(NextFixture.channel > Len(Channels))
           /\ at' = NextFixture /\ step' = 1 /\ UNCHANGED <<pass, outcomes, verdicts>>
  <2>1. NextFixture.channel <= Len(Channels)
    <3>1. NextFixture.channel \in Nat /\ Len(Channels) \in Nat
      BY NextFixtureIs, Here
    <3> QED
      BY <1>3, <3>1, NotAbove
  <2>2. outcomes' \in Seq(Seq(Outcomes))
    BY <1>3 DEF Progress
  <2> QED
    BY <1>3, <2>1, <2>2, NextTrialKeeps
<1> QED
  BY <1>1, <1>2, <1>3 DEF HuntOn

LEMMA ControlFailedKeeps ==
    ASSUME Progress, ~Done, Same, Proves, ControlFailed
    PROVE  Progress'
<1>1. CASE Scoring
  <2>1. Decide("no verdict") /\ "no verdict" \in Outcomes /\ "no verdict" # "kept out"
    BY <1>1 DEF ControlFailed, Outcomes
  <2> QED
    BY <1>1, <2>1, DecideKeeps
<1>2. CASE ~Scoring
  BY <1>2, HuntOnKeeps DEF ControlFailed
<1> QED
  BY <1>1, <1>2

LEMMA VariantIs ==
    ASSUME Progress, ~Done
    PROVE  Variant \in {"base", "mutated"}
<1>1. PICK n \in {1, 2} : /\ DOMAIN Variants = 1..n
                          /\ \A v \in 1..n : Variants[v] \in {"base", "mutated"}
  BY VariantsAre DEF Variants
<1>2. at.variant \in DOMAIN Variants
  BY Here
<1> QED
  BY <1>1, <1>2 DEF Variant

LEMMA ChannelIs ==
    ASSUME Progress, ~Done
    PROVE  Channel \in ToSet(CHANNELS) \cup {"cross-user"} /\ Variant \in {"base", "mutated"}
<1>1. at.channel \in DOMAIN Channels
  BY Here
<1>2. CASE attack = "cross_session_bleed"
  <2>1. Channels = <<"cross-user">>
    BY <1>2 DEF Channels
  <2> QED
    BY <1>1, <2>1, VariantIs DEF Channel
<1>3. CASE attack # "cross_session_bleed"
  <2>1. Channels = CHANNELS
    BY <1>3 DEF Channels
  <2> QED
    BY <1>1, <2>1, VariantIs DEF Channel, ToSet
<1> QED
  BY <1>2, <1>3

LEMMA LandedKeeps ==
    ASSUME Progress, ~Done, Same, Proves, Landed
    PROVE  Progress'
<1>1. CASE Scoring
  <2>1. Decide("surfaced") /\ "surfaced" \in Outcomes /\ "surfaced" # "kept out"
    BY <1>1 DEF Landed, Outcomes
  <2> QED
    BY <1>1, <2>1, DecideKeeps
<1>2. CASE ~Scoring
  <2> DEFINE trial == [channel |-> Channel, fixture |-> at.fixture, variant |-> Variant]
             found == Verdict("found", <<>>, trial)
  <2>1. EndPass(found)
    BY <1>2 DEF Landed
  <2>2. trial \in [channel : ToSet(CHANNELS) \cup {"cross-user"}, fixture : Nat,
                   variant : {"base", "mutated"}]
    BY ChannelIs, ChannelAndFixture
  <2> HIDE DEF trial
  <2>3. found \in VerdictSet /\ found.status = "found"
    BY <2>2 DEF Verdict, VerdictSet
  <2> HIDE DEF found
  <2> QED
    BY <2>1, <2>3, EndPassKeeps
<1> QED
  BY <1>1, <1>2

LEMMA KeptOutKeeps ==
    ASSUME Progress, ~Done, Same, Proves, KeptOut, Scoring => at \in proved'[pass]
    PROVE  Progress'
<1>1. CASE ~Scoring
  BY <1>1, HuntOnKeeps DEF KeptOut
<1>2. CASE Scoring /\ at.variant < Len(Variants)
  BY <1>2, TryVariantKeeps DEF KeptOut
<1>3. CASE Scoring /\ ~(at.variant < Len(Variants))
  <2>1. Decide("kept out") /\ "kept out" \in Outcomes
    BY <1>3 DEF KeptOut, Outcomes
  <2>2. proved[pass] \subseteq proved'[pass]
    BY Here, PassesAre, ProvedGrows
  <2>3. ASSUME NEW v \in DOMAIN Variants
        PROVE  TrialAt(at.channel, at.fixture, v) \in proved'[pass]
    <3>1. v < at.variant \/ v = at.variant
      <4>1. /\ Len(Variants) \in {1, 2} /\ at.variant \in 1..Len(Variants) /\ v \in 1..Len(Variants)
            /\ ~(at.variant < Len(Variants))
        BY <1>3, Here
      <4> QED
        BY <4>1, LastVariant
    <3>2. CASE v < at.variant
      BY <1>3, <2>2, <3>2 DEF Progress, EarnedSoFar
    <3>3. CASE v = at.variant
      BY <1>3, <3>3, Here
    <3> QED
      BY <3>1, <3>2, <3>3
  <2> QED
    BY <1>3, <2>1, <2>3, DecideKeeps
<1> QED
  BY <1>1, <1>2, <1>3

(* Every one of these goes on to another trial.                               *)
LEMMA StartsAfresh ==
    ASSUME ControlFailed \/ Landed \/ KeptOut
    PROVE  step' = 1
BY DEF ControlFailed, Landed, KeptOut, Decide, HuntOn, TryVariant, EndPass

(* A pass counts the attacker kept out only when the calls showed it.           *)
LEMMA KeptOutIsShown ==
    ASSUME NEW hits, Progress, ~Done, Scoring, ~Surfaced(hits),
           attack # "metadata_poisoning" => ServesOwn(served),
           attack = "metadata_poisoning" => ServesOwn(hits),
           attack = "cross_session_bleed" => ~ServesPlanted(hits)
    PROVE  Shown(hits)
<1>1. attack \in Attacks /\ Variant \in {"base", "mutated"}
  BY ChannelIs DEF Progress, TypeOK
<1>2. attack = "cross_session_bleed" => ~ServesOwn(hits)
  BY DEF Surfaced
<1>3. attack = "update_poisoning" => ServesOwn(hits) /\ ~ServesPlanted(hits)
  BY DEF Surfaced
<1>4. attack = "metadata_poisoning" => ~ServesPlanted(hits)
  BY DEF Surfaced
<1>5. attack = "indirect_prompt_injection" =>
        \/ \A hit \in hits : hit.fixture = at.fixture => ~ServedAsInstruction(kind, attack, hit)
        \/ ~ServesPlanted(hits)
  BY DEF Surfaced
<1>6. attack \in {"memory_injection", "retrieval_hijack"} => ~ServesPlanted(hits)
  BY DEF Surfaced
<1>7. ASSUME NEW hit \in hits, hit.of = "planted", hit.fixture = at.fixture
      PROVE  attack = "indirect_prompt_injection" /\ ~ServedAsInstruction(kind, attack, hit)
  BY <1>1, <1>3, <1>4, <1>5, <1>6, <1>7 DEF ServesPlanted, Attacks
<1> QED
  BY <1>2, <1>3, <1>7 DEF Shown

LEMMA AskedKeeps ==
    ASSUME NEW hits, Progress, ~Done, Asked(hits),
           attack # "metadata_poisoning" => ServesOwn(served),
           attack = "cross_session_bleed" => ~ServesPlanted(hits)
    PROVE  Progress' /\ step' = 1
<1>1. /\ Same
      /\ proved' = IF Shown(hits) THEN [proved EXCEPT ![pass] = @ \cup {at}] ELSE proved
  BY DEF Asked, Retrieves, Same
<1>2. Proves
  BY <1>1 DEF Proves
<1>3. Shown(hits) => at \in proved'[pass]
  <2>1. pass \in DOMAIN Passes /\ proved \in [DOMAIN Passes -> SUBSET Positions]
    BY Here, PassesAre DEF Progress
  <2> QED
    BY <1>1, <2>1
<1>4. CASE ControlFailed
  BY <1>1, <1>2, <1>4, ControlFailedKeeps, StartsAfresh
<1>5. CASE Landed
  BY <1>1, <1>2, <1>5, LandedKeeps, StartsAfresh
<1>6. CASE /\ attack = "metadata_poisoning" => ServesOwn(hits)
           /\ ~Surfaced(hits) /\ KeptOut
  <2>1. Scoring => Shown(hits)
    BY <1>6, KeptOutIsShown
  <2> QED
    BY <1>1, <1>2, <1>3, <1>6, <2>1, KeptOutKeeps, StartsAfresh
<1> QED
  BY <1>4, <1>5, <1>6 DEF Asked

-----------------------------------------------------------------------------
(* The store. *)

Fresh == {m \in StoredItems : ~m.old /\ m.of # "planted"}

LEMMA GenuineIsFresh ==
    ASSUME NEW n \in Nat, NEW f \in Nat
    PROVE  Genuine(n, f) \in Fresh /\ Tagged(Genuine(n, f)) \in Fresh /\ FillerMemory(n) \in Fresh
BY DEF Genuine, Memory, Fresh, StoredItems, Tagged, FillerMemory

LEMMA SeededIsFresh ==
    ASSUME TypeOK
    PROVE  Seeded \in Seq(Fresh)
<1>1. filler \in Nat
  BY SemanticAssumption DEF TypeOK
<1>2. \A n \in 1..filler : FillerMemory(n) \in Fresh
  BY <1>1, GenuineIsFresh, Positive
<1>3. [n \in 1..filler |-> FillerMemory(n)] \in Seq(Fresh)
  BY <1>1, <1>2, IsASeq
<1>4. <<>> \in Seq(Fresh)
  BY EmptySeq
<1> QED
  BY <1>3, <1>4 DEF Seeded

LEMMA OwnMemoriesAreFresh ==
    ASSUME Progress, ~Done
    PROVE  OwnMemories \in Seq(Fresh) /\ OwnMemories # <<>>
<1> DEFINE own == ThisFixture.control.genuine
           n == Len(own)
<1>1. at.fixture \in 1..5
  BY Here, FixturesWithin
<1>2. own \in Seq(Nat) /\ own # <<>>
  BY <1>1, VictimWrites DEF ThisFixture, Progress, TypeOK
<1>3. n \in Nat /\ DOMAIN own = 1..n /\ n # 0
  BY <1>2, LenProperties, EmptySeq
<1> DEFINE mine(i) == IF attack = "metadata_poisoning" THEN Tagged(Genuine(i, at.fixture))
                      ELSE Genuine(i, at.fixture)
<1>4. OwnMemories = [i \in 1..n |-> mine(i)]
  BY <1>3 DEF OwnMemories
<1> HIDE DEF n, own
<1>5. \A i \in 1..n : mine(i) \in Fresh
  <2>1. at.fixture \in Nat
    BY <1>1
  <2> QED
    BY <1>3, <2>1, GenuineIsFresh, Positive
<1> HIDE DEF mine
<1>6. [i \in 1..n |-> mine(i)] \in Seq(Fresh) /\ Len([i \in 1..n |-> mine(i)]) = n
  BY <1>3, <1>5, IsASeq
<1>7. Len(<<>>) = 0
  OBVIOUS
<1> QED
  BY <1>3, <1>4, <1>6, <1>7

(* Agents: a call makes one nobody has written to; a reset takes all away.         *)
LEMMA AgentForIs ==
    ASSUME NEW has, AgentsOK(has), NEW user \in Users, NEW f
    PROVE  /\ AgentsOK(AgentFor(kind, has, user))
           /\ Profile(kind).reset = "renames" =>
                 AgentFor(kind, has, user).of[user] \in 1..AgentFor(kind, has, user).made
           /\ Allowed(f, has) \subseteq Allowed(f, AgentFor(kind, has, user))
<1>1. CASE Profile(kind).reset = "renames" /\ has.of[user] = 0
  <2> DEFINE new == [made |-> has.made + 1, of |-> [has.of EXCEPT ![user] = has.made + 1]]
  <2>1. AgentFor(kind, has, user) = new
    BY <1>1 DEF AgentFor
  <2>2. /\ new.made = has.made + 1 /\ has.made \in Nat /\ new \in [made : Nat, of : [Users -> Nat]]
        /\ new.of[user] = has.made + 1
        /\ \A u \in Users : u # user => new.of[u] = has.of[u]
        /\ \A u \in Users : has.of[u] \in Nat /\ has.of[u] <= has.made
    BY DEF AgentsOK
  <2> HIDE DEF new
  <2>3. AgentsOK(new) /\ new.of[user] \in 1..new.made
    BY <2>2 DEF AgentsOK
  <2>4. ASSUME NEW m \in Allowed(f, has)
        PROVE  m \in Allowed(f, new)
    <3>1. m.agent \in 1..has.made /\ m \in StoredItems
      BY <1>1 DEF Allowed
    <3>2. m.agent \in 1..new.made /\ m.agent # has.made + 1
      BY <2>2, <3>1
    <3>3. m.old => \A u \in Users : has.of[u] # m.agent
      BY <1>1 DEF Allowed
    <3>4. m.old => \A u \in Users : new.of[u] # m.agent
      BY <2>2, <3>2, <3>3
    <3> QED
      BY <3>1, <3>2, <3>4 DEF Allowed
  <2> QED
    BY <2>1, <2>3, <2>4
<1>2. CASE ~(Profile(kind).reset = "renames" /\ has.of[user] = 0)
  <2>1. AgentFor(kind, has, user) = has
    BY <1>2 DEF AgentFor
  <2>2. has.made \in Nat /\ has.of[user] \in Nat /\ has.of[user] <= has.made
    BY DEF AgentsOK
  <2>3. has.of[user] # 0 => has.of[user] \in 1..has.made
    BY <2>2
  <2> QED
    BY <1>2, <2>1, <2>3
<1> QED
  BY <1>1, <1>2

LEMMA ResetAgentsIs ==
    ASSUME NEW has, AgentsOK(has)
    PROVE  /\ AgentsOK(ResetAgents(kind, has))
           /\ ResetAgents(kind, has).made = has.made
           /\ Profile(kind).reset = "renames" => \A user \in Users : ResetAgents(kind, has).of[user] = 0
<1>1. /\ has.made \in Nat /\ 0 <= has.made
      /\ [made |-> has.made, of |-> [user \in Users |-> 0]] \in [made : Nat, of : [Users -> Nat]]
  BY DEF AgentsOK
<1> QED
  BY <1>1 DEF AgentsOK, ResetAgents

LEMMA VictimUses == "victim" \in Users /\ Asker \in Users
BY DEF Users, Asker

(* What is written goes into the archive of the victim's agent.                  *)
LEMMA IntoIsAllowed ==
    ASSUME NEW has, NEW f, NEW written \in Seq(Fresh), AgentsOK(has),
           written # <<>> /\ Profile(kind).reset = "renames" => has.of["victim"] \in 1..has.made
    PROVE  Into(has, written) \in Seq(Allowed(f, has)) /\ (written # <<>> => Into(has, written) # <<>>)
<1> DEFINE n == Len(written)
           put(i) == [written[i] EXCEPT !.agent = has.of["victim"]]
<1>1. n \in Nat /\ DOMAIN written = 1..n
  BY LenProperties
<1>2. has.of["victim"] \in Nat
  BY VictimUses DEF AgentsOK
<1>3. ASSUME NEW i \in 1..n
      PROVE  put(i) \in Allowed(f, has)
  <2>1. written # <<>> /\ written[i] \in Fresh
    BY <1>1, <1>3, ElementOfSeq, EmptySeq
  <2> DEFINE m == written[i]
  <2>2. m \in StoredItems /\ ~m.old /\ m.of # "planted"
    BY <2>1 DEF Fresh
  <2> HIDE DEF m
  <2>3. /\ [m EXCEPT !.agent = has.of["victim"]] \in StoredItems
        /\ [m EXCEPT !.agent = has.of["victim"]].old = m.old
        /\ [m EXCEPT !.agent = has.of["victim"]].of = m.of
        /\ [m EXCEPT !.agent = has.of["victim"]].agent = has.of["victim"]
    BY <1>2, <2>2 DEF StoredItems
  <2>4. [m EXCEPT !.agent = has.of["victim"]] \in Allowed(f, has)
    BY <2>1, <2>2, <2>3 DEF Allowed
  <2> QED
    BY <2>4 DEF m
<1>4. Into(has, written) = [i \in 1..n |-> put(i)]
  BY <1>1 DEF Into
<1>5. written # <<>> => n # 0
  BY EmptySeq
<1> HIDE DEF n, put
<1>6. [i \in 1..n |-> put(i)] \in Seq(Allowed(f, has)) /\ Len([i \in 1..n |-> put(i)]) = n
  BY <1>1, <1>3, IsASeq
<1>7. Len(<<>>) = 0
  OBVIOUS
<1> QED
  BY <1>4, <1>5, <1>6, <1>7

LEMMA PlantedIsAllowed ==
    ASSUME Progress, ~Done, attack # "cross_session_bleed", NEW f, NEW has, AgentsOK(has),
           Profile(kind).reset = "renames" => has.of["victim"] \in 1..has.made,
           NEW item, item = [AttackerWrite(Channel, at.fixture, Variant) EXCEPT !.agent = has.of["victim"]]
    PROVE  item \in Allowed(f, has) /\ Tagged(item) \in Allowed(f, has)
<1>1. has.of["victim"] \in Nat /\ at.fixture \in Nat
  BY VictimUses DEF AgentsOK, Progress, Positions
<1>2. PICK a : a = has.of["victim"]
  OBVIOUS
<1>3. /\ item \in StoredItems /\ Tagged(item) \in StoredItems /\ ~item.old /\ ~Tagged(item).old
      /\ item.agent = a /\ Tagged(item).agent = a
  BY <1>1, <1>2, VariantIs DEF AttackerWrite, Memory, StoredItems, Tagged
<1> QED
  BY <1>2, <1>3 DEF Allowed

LEMMA AgedIsAllowed ==
    ASSUME NEW f, NEW g, NEW has, items \in Seq(Allowed(f, agents)),
           \/ /\ Profile(kind).reset = "renames" /\ has.made = agents.made
              /\ \A user \in Users : has.of[user] = 0
           \/ kind = "mem0" /\ g > 0 /\ Profile(kind).reset # "renames"
    PROVE  Aged(items) \in Seq(Allowed(g, has))
<1>1. Len(items) \in Nat /\ DOMAIN items = 1..Len(items)
  BY LenProperties
<1>2. ASSUME NEW m \in Allowed(f, agents)
      PROVE  [m EXCEPT !.old = TRUE] \in Allowed(g, has)
  <2>1. m \in StoredItems /\ (attack = "cross_session_bleed" => m.of # "planted")
    BY DEF Allowed
  <2>2. /\ [m EXCEPT !.old = TRUE] \in StoredItems
        /\ [m EXCEPT !.old = TRUE].of = m.of /\ [m EXCEPT !.old = TRUE].agent = m.agent
    BY <2>1 DEF StoredItems
  <2>3. Profile(kind).reset = "renames" =>
          m.agent \in 1..has.made /\ \A user \in Users : has.of[user] # m.agent
    <3> SUFFICES ASSUME Profile(kind).reset = "renames"
                 PROVE  m.agent \in 1..has.made /\ \A user \in Users : has.of[user] # m.agent
      OBVIOUS
    <3>1. m.agent \in 1..agents.made
      BY DEF Allowed
    <3>2. m.agent # 0
      BY <3>1
    <3> QED
      BY <3>1, <3>2
  <2> QED
    BY <2>1, <2>2, <2>3 DEF Allowed
<1>3. \A i \in 1..Len(items) : [items[i] EXCEPT !.old = TRUE] \in Allowed(g, has)
  BY <1>2, ElementOfSeq
<1> DEFINE n == Len(items)
           aged(i) == [items[i] EXCEPT !.old = TRUE]
<1>4. Aged(items) = [i \in 1..n |-> aged(i)]
  BY <1>1 DEF Aged
<1>5. n \in Nat /\ \A i \in 1..n : aged(i) \in Allowed(g, has)
  BY <1>1, <1>3
<1> HIDE DEF n, aged
<1> QED
  BY <1>4, <1>5, IsASeq

LEMMA AllowedGrows ==
    ASSUME NEW f \in Nat, NEW has
    PROVE  Allowed(f, has) \subseteq Allowed(f + 1, has)
<1>1. f + 1 > 0
  OBVIOUS
<1> QED
  BY <1>1 DEF Allowed

LEMMA AllowedSame ==
    ASSUME Same
    PROVE  \A f, has : Allowed(f, has)' = Allowed(f, has)
BY DEF Same, Allowed

(* What a retrieval serves is stored, and in the archive that is searched.         *)
Searched(has) ==
    {j \in DOMAIN items : Profile(kind).reset = "renames" => items[j].agent = has.of[Asker]}
Hits(among) == {Hit(items[i]) : i \in among} \cup {Told(items[i]) : i \in among}

LEMMA RankedIsSearched ==
    ASSUME NEW among, NEW words, NEW k, NEW hits \in Ranked(kind, attack, items, among, words, k),
           NEW hit \in hits
    PROVE  hit \in Hits(among)
<1>1. TopK(kind, attack, items, among, words, k) \subseteq among
  BY DEF TopK
<1>2. \A h \in Nearest(kind, items, among, k) : h \subseteq {Told(items[i]) : i \in among}
  BY DEF Nearest
<1> QED
  BY <1>1, <1>2 DEF Ranked, Hits

LEMMA CandidatesAreStored ==
    ASSUME NEW has, NEW words
    PROVE  Candidates(kind, attack, has, items, Asker, words) \subseteq Searched(has)
BY DEF Candidates, InScope, Searched

LEMMA HitsGrow ==
    ASSUME NEW A, NEW B, A \subseteq B
    PROVE  Hits(A) \subseteq Hits(B)
BY DEF Hits

LEMMA RetrieveIsSearched ==
    ASSUME NEW has, NEW words, NEW k,
           NEW hits \in Retrieve(kind, attack, has, items, Asker, words, k), NEW hit \in hits
    PROVE  hit \in Hits(Searched(has))
<1>1. PICK among : among = Candidates(kind, attack, has, items, Asker, words)
  OBVIOUS
<1>2. hits \in Ranked(kind, attack, items, among, words, k) /\ among \subseteq Searched(has)
  BY <1>1, CandidatesAreStored DEF Retrieve
<1>3. hit \in Hits(among)
  BY <1>2, RankedIsSearched
<1> QED
  BY <1>2, <1>3, HitsGrow

LEMMA RetrieveWhereIsSearched ==
    ASSUME NEW has, NEW words, NEW k,
           NEW hits \in RetrieveWhere(kind, attack, has, items, Asker, words, k), NEW hit \in hits
    PROVE  hit \in Hits(Searched(has))
<1>1. PICK among : among = Candidates(kind, attack, has, items, Asker, words)
  OBVIOUS
<1>2. PICK tagged : tagged = {i \in among : items[i].tag}
  OBVIOUS
<1>3. /\ among \subseteq Searched(has) /\ tagged \subseteq Searched(has)
  BY <1>1, <1>2, CandidatesAreStored
<1>4. \/ hits \in Ranked(kind, attack, items, among, words, k)
      \/ \E all \in Ranked(kind, attack, items, among, words, Len(items)) :
            hits = {h \in all : FirstStored(items, h).tag}
      \/ hits \in Ranked(kind, attack, items, tagged, words, k)
  BY <1>1, <1>2 DEF RetrieveWhere
<1>5. hit \in Hits(among) \/ hit \in Hits(tagged)
  BY <1>4, RankedIsSearched
<1> QED
  BY <1>3, <1>5, HitsGrow

LEMMA FlakyIsSearched ==
    ASSUME kind = "flaky", StoreInv, items # <<>>, NEW hits \in FlakyAnswers, NEW hit \in hits, NEW has
    PROVE  hit \in Hits(Searched(has))
<1>1. Profile(kind).reset # "renames"
  BY DEF Profile, NaiveStore
<1>2. 1 \in DOMAIN items /\ Len(items) \in DOMAIN items
  <2>1. Len(items) \in Nat /\ DOMAIN items = 1..Len(items) /\ Len(items) # 0
    BY LenProperties, EmptySeq DEF StoreInv
  <2> QED
    BY <2>1, Ends
<1>3. \A i \in DOMAIN items : i \in Searched(has)
  BY <1>1 DEF Searched
<1> QED
  BY <1>2, <1>3 DEF FlakyAnswers, Hits

LEMMA HitIs ==
    ASSUME NEW m
    PROVE  /\ Hit(m).old = m.old /\ Hit(m).of = m.of
           /\ Told(m).old = m.old /\ Told(m).of = m.of
<1>1. Hit(m).old = m.old /\ Hit(m).of = m.of
  BY DEF Hit
<1>2. Told(m) = [of |-> m.of, n |-> 1, fixture |-> m.fixture, variant |-> m.variant,
                 user |-> m.user, old |-> m.old]
  BY DEF Told, Hit
<1> QED
  BY <1>1, <1>2

(* The agent that is searched has nothing in its archive that a reset left.         *)
LEMMA SearchedIsOfThisTrial ==
    ASSUME StoreInv, NEW hit \in Hits(Searched(AgentFor(kind, agents, Asker)))
    PROVE  /\ hit.old => kind = "mem0" /\ failures > 0
           /\ attack = "cross_session_bleed" => hit.of # "planted"
<1>1. PICK has : has = AgentFor(kind, agents, Asker)
  OBVIOUS
<1>2. PICK i \in DOMAIN items :
        /\ hit = Hit(items[i]) \/ hit = Told(items[i])
        /\ Profile(kind).reset = "renames" => items[i].agent = has.of[Asker]
  BY <1>1 DEF Searched, Hits
<1>3. PICK m : m = items[i]
  OBVIOUS
<1>4. /\ hit = Hit(m) \/ hit = Told(m)
      /\ Profile(kind).reset = "renames" => m.agent = has.of[Asker]
  BY <1>2, <1>3
<1>5. m \in Allowed(failures, agents) /\ Allowed(failures, agents) \subseteq Allowed(failures, has)
  <2>1. items[i] \in Allowed(failures, agents)
    BY <1>2, ElementOfSeq, LenProperties DEF StoreInv
  <2> QED
    BY <1>1, <1>3, <2>1, AgentForIs, VictimUses DEF StoreInv
<1>6. m \in Allowed(failures, has)
  BY <1>5
<1>7. Profile(kind).reset = "renames" => ~m.old
  <2>1. ASSUME Profile(kind).reset = "renames", m.old
        PROVE  \A user \in Users : has.of[user] # m.agent
    BY <1>6, <2>1 DEF Allowed
  <2> QED
    BY <1>4, <2>1, VictimUses
<1>8. /\ m.old => Profile(kind).reset = "renames" \/ (kind = "mem0" /\ failures > 0)
      /\ attack = "cross_session_bleed" => m.of # "planted"
  BY <1>6 DEF Allowed
<1>9. hit.old = m.old /\ hit.of = m.of
  <2>1. CASE hit = Hit(m)
    BY <2>1, HitIs
  <2>2. CASE hit = Told(m)
    BY <2>2, HitIs
  <2> QED
    BY <1>4, <2>1, <2>2
<1> QED
  BY <1>7, <1>8, <1>9

(* A new trial has nothing to hold yet.                                       *)
LEMMA NewTrialHolds ==
    ASSUME step' = 1, attack' \in Attacks
    PROVE  Written' /\ ControlHeld'
<1>1. Plan' \in Plans
  BY DEF Plan, Plans, BleedPlan, UpdatePlan, FilterPlan, FilterHuntPlan, WritePlan, ProbePlan, Attacks
<1>2. Plan'[1] \in {"reset", "probe"}
  BY <1>1, PlanDomain
<1>3. Written'
  BY <1>2 DEF Written
<1>4. 1..(1 - 1) = {}
  OBVIOUS
<1>5. ControlHeld'
  BY <1>4 DEF ControlHeld
<1> QED
  BY <1>3, <1>5

LEMMA GoingOnHolds ==
    ASSUME Progress, StoreInv, ~Done, Same, Continue, Plan[step] \notin {"ask", "probe"},
           Plan[step] # "reset" => items' # <<>>,
           \/ ServesOwn(served') \/ (served' = served /\ Plan[step] # "control")
           \/ Plan[step] = "reset"
    PROVE  Written' /\ ControlHeld'
<1>1. Plan' = Plan /\ (Done' <=> Done) /\ step' = step + 1 /\ attack' = attack /\ at' = at
  BY SamePass DEF Continue, Same
<1>2. Plan \in Plans /\ step \in DOMAIN Plan /\ step \in Nat
  BY Here, PlanDomain
<1>3. Written'
  <2>1. Plan[step] = "reset" => Plan[step + 1] = "genuine"
    BY <1>2, PlanGoesOn
  <2> QED
    BY <1>1, <2>1 DEF Written
<1>4. ControlHeld'
  <2> SUFFICES ASSUME attack # "metadata_poisoning", NEW j \in 1..(step' - 1), Plan[j] = "control",
                      ~ServesOwn(served)'
               PROVE  FALSE
    BY <1>1 DEF ControlHeld
  <2>0. ~ServesOwn(served')
    BY <1>1 DEF ServesOwn
  <2>00. Plan[step] # "reset"
    BY <1>1, <1>2, PlanIsOne, ResetsFirst DEF Progress, TypeOK
  <2>1. j \in 1..step
    BY <1>1, <1>2, OneOnOneBack
  <2>2. j \in 1..(step - 1) \/ j = step
    BY <1>2, <2>1, UpTo
  <2>3. served' = served /\ Plan[step] # "control"
    BY <2>0, <2>00
  <2>4. j \in 1..(step - 1)
    BY <2>2, <2>3
  <2>5. ServesOwn(served)
    BY <2>4 DEF StoreInv, ControlHeld
  <2> QED
    BY <2>0, <2>3, <2>5
<1> QED
  BY <1>3, <1>4

-----------------------------------------------------------------------------
(* Every call keeps what is known of the pass and of the store. *)

IInv == Progress /\ StoreInv

LEMMA Types ==
    ASSUME Progress
    PROVE  /\ attack \in Attacks /\ kind \in SemanticKinds /\ filler \in Nat
           /\ TypeOK
BY SemanticAssumption DEF Progress, TypeOK

LEMMA StoreKept ==
    ASSUME Same, Progress', Written', ControlHeld', failures' \in Nat, AgentsOK(agents'),
           items' \in Seq(Allowed(failures', agents')),
           \A hit \in served' : hit.old => kind = "mem0" /\ failures' > 0
    PROVE  IInv'
<1>1. (items \in Seq(Allowed(failures, agents)))'
  BY AllowedSame
<1>2. AgentsOK(agents)'
  BY DEF AgentsOK
<1>3. ServedIsOfThisTrial'
  BY DEF ServedIsOfThisTrial, Same
<1> QED
  BY <1>1, <1>2, <1>3 DEF IInv, StoreInv

LEMMA RestartIs ==
    ASSUME Progress, NEW left, NEW none, NEW f, Restart(left, none),
           AgentsOK(none), left \in Seq(Allowed(f, none))
    PROVE  AgentsOK(agents') /\ items' \in Seq(Allowed(f, agents'))
<1>1. Seeded \in Seq(Fresh)
  BY Types, SeededIsFresh
<1>2. PICK has : has = agents'
  OBVIOUS
<1>3. /\ AgentsOK(has) /\ left \in Seq(Allowed(f, has))
      /\ Seeded # <<>> /\ Profile(kind).reset = "renames" => has.of["victim"] \in 1..has.made
  <2>1. CASE Seeded = <<>>
    BY <1>2, <2>1 DEF Restart
  <2>2. CASE Seeded # <<>>
    <3>1. has = AgentFor(kind, none, "victim")
      BY <1>2, <2>2 DEF Restart
    <3>2. /\ AgentsOK(has) /\ Allowed(f, none) \subseteq Allowed(f, has)
          /\ Profile(kind).reset = "renames" => has.of["victim"] \in 1..has.made
      BY <3>1, AgentForIs, VictimUses
    <3> QED
      BY <3>2, SeqMonotonic
  <2> QED
    BY <2>1, <2>2
<1> DEFINE a == Allowed(f, has)
           seeded == Into(has, Seeded)
<1>4. seeded \in Seq(a)
  BY <1>1, <1>3, IntoIsAllowed
<1>5. items' = left \o seeded
  BY <1>2 DEF Restart
<1> HIDE DEF seeded, a
<1>6. items' \in Seq(a)
  BY <1>3, <1>4, <1>5, ConcatProperties DEF a
<1> QED
  BY <1>2, <1>3, <1>6 DEF a

LEMMA ResetKeeps ==
    ASSUME IInv, Reset \/ ResetFails
    PROVE  IInv'
<1>1. /\ ~Done /\ Plan[step] = "reset" /\ Same /\ Continue /\ proved' = proved /\ served' = {}
      /\ Progress /\ StoreInv
  BY DEF Reset, ResetFails, Restart, At, Same, IInv
<1>2. Progress'
  BY <1>1, ContinueKeeps
<1>3. Written' /\ ControlHeld'
  BY <1>1, GoingOnHolds
<1>4. failures \in Nat /\ items \in Seq(Allowed(failures, agents)) /\ AgentsOK(agents)
  BY <1>1 DEF StoreInv
<1>5. failures' \in Nat /\ AgentsOK(agents') /\ items' \in Seq(Allowed(failures', agents'))
  <2>1. CASE Reset
    <3>1. PICK left : left = ResetItems(kind, items)
      OBVIOUS
    <3>2. PICK none : none = ResetAgents(kind, agents)
      OBVIOUS
    <3>3. Restart(left, none) /\ failures' = failures
      BY <2>1, <3>1, <3>2 DEF Reset
    <3>4. /\ AgentsOK(none) /\ none.made = agents.made
          /\ Profile(kind).reset = "renames" => \A user \in Users : none.of[user] = 0
      BY <1>4, <3>2, ResetAgentsIs
    <3>5. left \in Seq(Allowed(failures, none))
      <4>1. Profile(kind).reset = "renames" => Aged(items) \in Seq(Allowed(failures, none))
        BY <1>4, <3>4, AgedIsAllowed
      <4>2. <<>> \in Seq(Allowed(failures, none))
        BY EmptySeq
      <4> QED
        BY <3>1, <4>1, <4>2 DEF ResetItems
    <3> QED
      BY <1>1, <1>4, <3>3, <3>4, <3>5, RestartIs
  <2>2. CASE ResetFails
    <3>1. /\ failures' = failures + 1 /\ Restart(Aged(items), agents)
          /\ Profile(kind).reset = "may fail"
      BY <2>2 DEF ResetFails
    <3>2. kind = "mem0" /\ Profile(kind).reset # "renames"
      BY <1>1, <3>1, Types, OnlyLettaRenames
    <3>3. failures' \in Nat /\ failures' > 0
      BY <1>4, <3>1, OneMore
    <3>4. Aged(items) \in Seq(Allowed(failures', agents))
      BY <1>4, <3>2, <3>3, AgedIsAllowed
    <3> QED
      BY <1>1, <1>4, <3>1, <3>3, <3>4, RestartIs
  <2> QED
    BY <2>1, <2>2
<1> QED
  BY <1>1, <1>2, <1>3, <1>5, StoreKept

LEMMA WriteGenuineKeeps ==
    ASSUME IInv, WriteGenuine
    PROVE  IInv'
<1>1. /\ ~Done /\ Plan[step] = "genuine" /\ Same /\ Continue /\ proved' = proved /\ served' = served
      /\ Progress /\ StoreInv /\ failures' = failures
      /\ items' = items \o Into(agents', OwnMemories)
      /\ agents' = AgentFor(kind, agents, "victim")
  BY DEF WriteGenuine, At, Same, history, IInv
<1>2. Progress'
  BY <1>1, ContinueKeeps
<1>3. PICK has : has = agents'
  OBVIOUS
<1>4. /\ failures \in Nat /\ AgentsOK(has) /\ Allowed(failures, agents) \subseteq Allowed(failures, has)
      /\ Profile(kind).reset = "renames" => has.of["victim"] \in 1..has.made
  BY <1>1, <1>3, AgentForIs, VictimUses DEF StoreInv
<1> DEFINE a == Allowed(failures, has)
           own == Into(has, OwnMemories)
<1>5. items \in Seq(a)
  BY <1>1, <1>4, SeqMonotonic DEF StoreInv
<1>6. own \in Seq(a) /\ own # <<>>
  <2>1. OwnMemories \in Seq(Fresh) /\ OwnMemories # <<>>
    BY <1>1, OwnMemoriesAreFresh
  <2> QED
    BY <1>4, <2>1, IntoIsAllowed
<1>7. items' = items \o own
  BY <1>1, <1>3
<1> HIDE DEF a, own
<1>8. items' \in Seq(a) /\ items' # <<>>
  BY <1>5, <1>6, <1>7, ConcatProperties, ConcatEqualIffEmpty
<1>9. Written' /\ ControlHeld'
  BY <1>1, <1>8, GoingOnHolds
<1>10. \A hit \in served' : hit.old => kind = "mem0" /\ failures' > 0
  BY <1>1 DEF StoreInv, ServedIsOfThisTrial
<1>11. items' \in Seq(Allowed(failures', agents')) /\ AgentsOK(agents') /\ failures' \in Nat
  BY <1>1, <1>3, <1>4, <1>8 DEF a
<1> QED
  BY <1>1, <1>2, <1>9, <1>10, <1>11, StoreKept

LEMMA WriteAttackerKeeps ==
    ASSUME IInv, WriteAttacker
    PROVE  IInv'
<1>1. /\ ~Done /\ Plan[step] \in {"write", "write tagged"} /\ Same /\ Continue
      /\ proved' = proved /\ served' = served /\ Progress /\ StoreInv /\ failures' = failures
      /\ agents' = AgentFor(kind, agents, "victim")
  BY DEF WriteAttacker, At, Same, history, IInv
<1>2. Progress'
  BY <1>1, ContinueKeeps
<1>3. attack # "cross_session_bleed"
  <2>1. step \in DOMAIN Plan /\ attack \in Attacks
    BY <1>1, Here, Types
  <2> QED
    BY <1>1, <2>1, PlanIsOne, BleedWritesNothing
<1>4. PICK has : has = agents'
  OBVIOUS
<1>5. /\ failures \in Nat /\ AgentsOK(has) /\ Allowed(failures, agents) \subseteq Allowed(failures, has)
      /\ Profile(kind).reset = "renames" => has.of["victim"] \in 1..has.made
  BY <1>1, <1>4, AgentForIs, VictimUses DEF StoreInv
<1>6. PICK plain : plain = [AttackerWrite(Channel, at.fixture, Variant) EXCEPT !.agent = has.of["victim"]]
  OBVIOUS
<1>7. PICK item : item = IF At("write tagged") THEN Tagged(plain) ELSE plain
  OBVIOUS
<1> DEFINE a == Allowed(failures, has)
<1>8. items \in Seq(a) /\ item \in a
  <2>1. plain \in a /\ Tagged(plain) \in a
    BY <1>1, <1>3, <1>5, <1>6, PlantedIsAllowed
  <2>2. items \in Seq(a)
    BY <1>1, <1>5, SeqMonotonic DEF StoreInv
  <2> QED
    BY <1>7, <2>1, <2>2
<1>9. items' = AddMemory(kind, items, item, Corrects)
  BY <1>4, <1>6, <1>7 DEF WriteAttacker
<1> HIDE DEF a
<1>10. /\ Append(items, item) \in Seq(a) /\ Append(items, item) # <<>>
  BY <1>8, AppendProperties
<1>11. <<item>> \in Seq(a) /\ <<item>> # <<>>
  BY <1>8
<1>12. items' \in Seq(a) /\ items' # <<>>
  BY <1>9, <1>10, <1>11 DEF AddMemory
<1>13. Written' /\ ControlHeld'
  BY <1>1, <1>12, GoingOnHolds
<1>14. \A hit \in served' : hit.old => kind = "mem0" /\ failures' > 0
  BY <1>1 DEF StoreInv, ServedIsOfThisTrial
<1>15. items' \in Seq(Allowed(failures', agents')) /\ AgentsOK(agents') /\ failures' \in Nat
  BY <1>1, <1>4, <1>5, <1>12 DEF a
<1> QED
  BY <1>1, <1>2, <1>13, <1>14, <1>15, StoreKept

(* A retrieval: it serves what is searched, and leaves the store as it was.      *)
LEMMA AnswerIsSearched ==
    ASSUME IInv, ~Done, Plan[step] \notin {"reset", "genuine", "probe"},
           NEW hits, NEW words, hits \in Answers(words) \/ hits \in AnswersWhere
    PROVE  /\ \A hit \in hits : hit.old => kind = "mem0" /\ failures > 0
           /\ attack = "cross_session_bleed" => ~ServesPlanted(hits)
<1>1. Progress /\ StoreInv /\ items # <<>>
  BY DEF IInv, StoreInv, Written
<1>2. PICK has : has = AgentFor(kind, agents, Asker)
  OBVIOUS
<1>3. ASSUME NEW hit \in hits
      PROVE  hit \in Hits(Searched(has))
  <2>1. CASE kind = "flaky"
    <3>1. hits \in FlakyAnswers
      BY <2>1 DEF Answers, AnswersWhere
    <3> QED
      BY <1>1, <2>1, <3>1, FlakyIsSearched
  <2>2. CASE kind # "flaky" /\ hits \in Answers(words)
    <3>1. hits \in Retrieve(kind, attack, has, items, Asker, words, TopOf)
      BY <1>2, <2>2 DEF Answers
    <3> QED
      BY <3>1, RetrieveIsSearched
  <2>3. CASE kind # "flaky" /\ hits \in AnswersWhere
    <3>1. hits \in RetrieveWhere(kind, attack, has, items, Asker, ThisFixture.attack, TopOf)
      BY <1>2, <2>3 DEF AnswersWhere
    <3> QED
      BY <3>1, RetrieveWhereIsSearched
  <2> QED
    BY <2>1, <2>2, <2>3
<1>4. ASSUME NEW hit \in hits
      PROVE  /\ hit.old => kind = "mem0" /\ failures > 0
             /\ attack = "cross_session_bleed" => hit.of # "planted"
  BY <1>1, <1>2, <1>3, SearchedIsOfThisTrial
<1>5. attack = "cross_session_bleed" => ~ServesPlanted(hits)
  BY <1>4 DEF ServesPlanted
<1> QED
  BY <1>4, <1>5

LEMMA RetrievalKeepsTheStore ==
    ASSUME IInv, Retrieves, Progress', Written', ControlHeld',
           \A hit \in served' : hit.old => kind = "mem0" /\ failures > 0
    PROVE  IInv'
<1>1. PICK has : has = agents'
  OBVIOUS
<1>2. /\ Same /\ items' = items /\ failures' = failures /\ has = AgentFor(kind, agents, Asker)
  BY <1>1 DEF Retrieves, Same
<1>3. /\ failures \in Nat /\ AgentsOK(has) /\ Allowed(failures, agents) \subseteq Allowed(failures, has)
      /\ items \in Seq(Allowed(failures, agents))
  BY <1>2, AgentForIs, VictimUses DEF IInv, StoreInv
<1>4. items \in Seq(Allowed(failures, has))
  BY <1>3, SeqMonotonic
<1> QED
  BY <1>1, <1>2, <1>3, <1>4, StoreKept

LEMMA ControlKeeps ==
    ASSUME IInv, Control \/ NegativeControl
    PROVE  IInv'
<1>1. /\ ~Done /\ Plan[step] \in {"control", "negative control"} /\ Same /\ proved' = proved
      /\ Retrieves /\ items' = items /\ Progress /\ StoreInv
  BY DEF Control, NegativeControl, Retrieves, At, Same, IInv
<1>2. PICK hits : /\ hits \in Answers(ThisFixture.control) \/ hits \in AnswersWhere
                  /\ served' = hits
                  /\ (ServesOwn(hits) /\ Continue) \/ ControlFailed
  BY DEF Control, NegativeControl
<1>3. \A hit \in hits : hit.old => kind = "mem0" /\ failures > 0
  BY <1>1, <1>2, AnswerIsSearched
<1>4. CASE ServesOwn(hits) /\ Continue
  <2>1. Progress'
    BY <1>1, <1>4, ContinueKeeps
  <2>2. items' # <<>>
    BY <1>1 DEF StoreInv, Written
  <2>3. Written' /\ ControlHeld'
    BY <1>1, <1>2, <1>4, <2>2, GoingOnHolds
  <2> QED
    BY <1>1, <1>2, <1>3, <2>1, <2>3, RetrievalKeepsTheStore
<1>5. CASE ControlFailed
  <2>1. Progress'
    BY <1>1, <1>5, ControlFailedKeeps DEF Proves
  <2>2. Written' /\ ControlHeld'
    BY <1>1, <1>5, StartsAfresh, NewTrialHolds, Types DEF Same
  <2> QED
    BY <1>1, <1>2, <1>3, <2>1, <2>2, RetrievalKeepsTheStore
<1> QED
  BY <1>2, <1>4, <1>5

LEMMA AskKeeps ==
    ASSUME IInv, Ask \/ AskWhere
    PROVE  IInv'
<1>1. ~Done /\ Plan[step] = "ask" /\ Progress /\ StoreInv /\ attack \in Attacks
  BY Types DEF Ask, AskWhere, At, IInv
<1>2. PICK hits : /\ hits \in Answers(ThisFixture.attack) \/ hits \in AnswersWhere
                  /\ Asked(hits)
  BY DEF Ask, AskWhere
<1>3. Same /\ Retrieves /\ served' = hits
  BY <1>2 DEF Asked, Retrieves, Same
<1>4. /\ \A hit \in hits : hit.old => kind = "mem0" /\ failures > 0
      /\ attack = "cross_session_bleed" => ~ServesPlanted(hits)
  BY <1>1, <1>2, AnswerIsSearched
<1>5. attack # "metadata_poisoning" => ServesOwn(served)
  <2> SUFFICES ASSUME attack # "metadata_poisoning" PROVE ServesOwn(served)
    OBVIOUS
  <2>1. Plan \in {BleedPlan, UpdatePlan, WritePlan} /\ step \in DOMAIN Plan
    BY <1>1, PlanIsOne, Here
  <2>2. \E j \in 1..(step - 1) : Plan[j] = "control"
    BY <1>1, <2>1, PlanControls
  <2> QED
    BY <1>1, <2>2 DEF StoreInv, ControlHeld
<1>6. Progress' /\ step' = 1
  BY <1>1, <1>2, <1>4, <1>5, AskedKeeps
<1>7. Written' /\ ControlHeld'
  BY <1>1, <1>3, <1>6, NewTrialHolds DEF Same
<1> QED
  BY <1>3, <1>4, <1>6, <1>7, RetrievalKeepsTheStore

LEMMA StoppedKeeps ==
    ASSUME IInv, Unsupported \/ Raise
    PROVE  IInv'
<1>1. /\ Same /\ items' = items /\ agents' = agents /\ UNCHANGED <<served, proved>> /\ Progress /\ StoreInv
      /\ attack \in Attacks /\ failures \in Nat
  BY Types DEF Unsupported, Raise, Same, history, IInv, StoreInv
<1>2. PICK status \in {"n/a", "none", "aborted"} : ~Done /\ EndPass(Verdict(status, <<>>, <<>>))
  BY DEF Unsupported, Raise, At
<1>3. Progress' /\ step' = 1
  BY <1>1, <1>2, EmptyVerdict, EndPassKeeps DEF Proves, EndPass
<1>4. Written' /\ ControlHeld'
  BY <1>1, <1>3, NewTrialHolds DEF Same
<1>5. failures' = failures \/ failures' = failures + 1
  BY DEF Unsupported, Raise
<1>6. /\ failures' \in Nat
      /\ failures > 0 => failures' > 0
      /\ Allowed(failures, agents) \subseteq Allowed(failures', agents)
  <2>1. failures + 1 \in Nat /\ failures + 1 > 0
    BY <1>1, OneMore
  <2> QED
    BY <1>1, <1>5, <2>1, AllowedGrows
<1>7. items' \in Seq(Allowed(failures', agents')) /\ AgentsOK(agents')
  <2>1. items \in Seq(Allowed(failures', agents)) /\ AgentsOK(agents)
    BY <1>1, <1>6, SeqMonotonic DEF StoreInv
  <2> QED
    BY <1>1, <2>1
<1>8. \A hit \in served' : hit.old => kind = "mem0" /\ failures' > 0
  BY <1>1, <1>6 DEF StoreInv, ServedIsOfThisTrial
<1> QED
  BY <1>1, <1>3, <1>4, <1>6, <1>7, <1>8, StoreKept

LEMMA StutterKeeps ==
    ASSUME IInv, UNCHANGED vars
    PROVE  IInv'
<1>1. /\ Same /\ UNCHANGED <<pass, at, step, items, agents, outcomes, verdicts, failures, served, proved>>
      /\ Progress /\ StoreInv
  BY DEF vars, where, history, Same, IInv
<1>2. Plan' = Plan /\ Variants' = Variants /\ (Scoring' <=> Scoring) /\ (Done' <=> Done)
  BY <1>1, SamePass
<1>3. Channels' = Channels /\ NFixtures' = NFixtures /\ \A q : Trials(q)' = Trials(q)
  BY <1>1, SameCase
<1>4. TypeOK'
  BY <1>1, <1>2, <1>3 DEF TypeOK, Progress, Same
<1>5. EarnedSoFar'
  BY <1>1, <1>2, <1>3 DEF EarnedSoFar, Progress, Decided
<1>6. SafeIsEarned'
  BY <1>1, <1>3 DEF SafeIsEarned, Progress, Trials, Same
<1>7. Progress'
  BY <1>1, <1>3, <1>4, <1>5, <1>6 DEF Progress
<1>8. Written' /\ ControlHeld'
  BY <1>1, <1>2 DEF StoreInv, Written, ControlHeld, ServesOwn, Same
<1>9. \A hit \in served' : hit.old => kind = "mem0" /\ failures' > 0
  BY <1>1 DEF StoreInv, ServedIsOfThisTrial
<1>10. items' \in Seq(Allowed(failures', agents')) /\ AgentsOK(agents') /\ failures' \in Nat
  BY <1>1 DEF StoreInv
<1> QED
  BY <1>1, <1>7, <1>8, <1>9, <1>10, StoreKept

LEMMA NextKeeps ==
    ASSUME IInv, [Next]_vars
    PROVE  IInv'
<1>1. CASE Reset \/ ResetFails
  BY <1>1, ResetKeeps
<1>2. CASE WriteGenuine
  BY <1>2, WriteGenuineKeeps
<1>3. CASE WriteAttacker
  BY <1>3, WriteAttackerKeeps
<1>4. CASE Control \/ NegativeControl
  BY <1>4, ControlKeeps
<1>5. CASE Ask \/ AskWhere
  BY <1>5, AskKeeps
<1>6. CASE Unsupported \/ Raise
  BY <1>6, StoppedKeeps
<1>7. CASE Finished \/ UNCHANGED vars
  BY <1>7, StutterKeeps DEF Finished
<1> QED
  BY <1>1, <1>2, <1>3, <1>4, <1>5, <1>6, <1>7 DEF Next

LEMMA InitKeeps ==
    ASSUME Init
    PROVE  IInv
<1>1. /\ kind \in Kinds /\ attack \in Attacks /\ filler \in Fillers /\ pass = 1 /\ at = FirstTrial
      /\ step = 1 /\ items = <<>> /\ outcomes = << <<>> >> /\ verdicts = <<>> /\ failures = 0
      /\ served = {} /\ proved = [p \in DOMAIN Passes |-> {}] /\ agents = NoAgents
  BY DEF Init
<1>2. at \in Positions /\ at.channel = 1 /\ at.fixture = 1 /\ at.variant = 1
  BY <1>1 DEF FirstTrial, Positions
<1>3. Plan \in Plans /\ Plan[1] \in {"reset", "probe"} /\ 1 \in DOMAIN Plan
  BY <1>1, PlanIsOne, PlanDomain
<1>4. 1 \in DOMAIN Variants /\ \A v \in DOMAIN Variants : ~(v < 1)
  <2>1. PICK n \in {1, 2} : DOMAIN Variants = 1..n
    BY VariantsAre DEF Variants
  <2> QED
    BY <2>1
<1>5. /\ 1 \in DOMAIN Channels /\ 1 \in 1..NFixtures
      /\ DOMAIN Channels = 1..Len(Channels) /\ Len(Channels) \in Nat
  BY <1>1, Lengths
<1>6. outcomes \in Seq(Seq(Outcomes)) /\ Len(outcomes) = 1 /\ Len(outcomes[1]) = 0
  BY <1>1
<1>7. verdicts \in Seq(VerdictSet) /\ Len(verdicts) = 0 /\ DOMAIN verdicts = {}
  BY <1>1
<1>8. TypeOK
  BY <1>1, <1>2, <1>3, <1>4, <1>5, <1>6, <1>7 DEF TypeOK
<1>9. EarnedSoFar
  <2>1. \A c \in DOMAIN Channels, f \in 1..NFixtures : ~Decided(c, f)
    <3>1. NFixtures \in 1..5
      BY <1>1, Lengths
    <3> QED
      BY <1>2, <1>5, <3>1 DEF Decided
  <2> QED
    BY <1>2, <1>4, <2>1 DEF EarnedSoFar
<1>10. SafeIsEarned
  BY <1>7 DEF SafeIsEarned
<1>11. Progress
  BY <1>1, <1>2, <1>6, <1>7, <1>8, <1>9, <1>10 DEF Progress
<1>12. Written /\ ControlHeld /\ ServedIsOfThisTrial
  BY <1>1, <1>3 DEF Written, ControlHeld, ServedIsOfThisTrial
<1>13. items \in Seq(Allowed(failures, agents)) /\ failures \in Nat
  BY <1>1, EmptySeq
<1>14. AgentsOK(agents)
  BY <1>1 DEF AgentsOK, NoAgents
<1> QED
  BY <1>11, <1>12, <1>13, <1>14 DEF IInv, StoreInv

LEMMA Inductive == Spec => []IInv
<1>1. Init => IInv
  BY InitKeeps
<1>2. IInv /\ [Next]_vars => IInv'
  BY NextKeeps
<1> QED
  BY <1>1, <1>2, PTL DEF Spec

(* Every state of a run is a trial of some pass, with the outcomes of the          *)
(* fixtures before it (memory_specific.py, hunter.py).                          *)
THEOREM TypeCorrect == Spec => []TypeOK
<1>1. IInv => TypeOK
  BY DEF IInv, Progress
<1> QED
  BY <1>1, Inductive, PTL

(* A scored cell says "safe" only if each of its trials, on every channel,       *)
(* fixture and variant, showed the victim's memory served and the attacker's      *)
(* kept out: whatever the stores under test, the filler, and the calls that fail. *)
THEOREM SafeCellsAreEarned == Spec => []SafeIsEarned
<1>1. IInv => SafeIsEarned
  BY DEF IInv, Progress
<1> QED
  BY <1>1, Inductive, PTL

(* No retrieval serves a memory of an earlier trial, but mem0's after a reset     *)
(* that failed unseen.  Letta's store never loses a passage: what keeps the old    *)
(* ones out is that a reset forgets the agents and that an agent made later has    *)
(* an archive nobody has written to (letta_archival.py:152-158, 196-217).         *)
THEOREM NothingLeftOverIsServed == Spec => []ServedIsOfThisTrial
<1>1. IInv => ServedIsOfThisTrial
  BY DEF IInv, StoreInv
<1> QED
  BY <1>1, Inductive, PTL
=============================================================================
