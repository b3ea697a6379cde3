---------------------------- MODULE BuilderProofs ----------------------------
(***************************************************************************)
(* Proofs about Builder: about XrayBuild, for any templates, groups, tags  *)
(* and users; about MihomoBuild, for any profiles: in the merge of any     *)
(* number of them a name means one proxy, and what a profile keeps off the *)
(* proxies stays off them; and what a call for either core has from both.  *)
(***************************************************************************)
EXTENDS Builder, SequenceTheorems, TLAPS


-----------------------------------------------------------------------------
(* Groups that share no candidate rename one to one.                       *)

LEMMA GroupOfChosen ==
  ASSUME NEW gs, NEW outbounds, GoodGroups(gs, outbounds),
         NEW pick, DOMAIN pick = DOMAIN gs, \A g \in DOMAIN pick : pick[g] \in gs[g],
         NEW g \in DOMAIN pick
  PROVE  /\ pick[g] \in Chosen(pick)
         /\ Renamed(pick[g], pick) = g
         /\ \A tag \in gs[g] : tag \in Chosen(pick) => tag = pick[g]
<1>1. \A j \in DOMAIN pick : pick[j] \in gs[g] => j = g
  BY DEF GoodGroups
<1>2. pick[g] \in Chosen(pick)
  BY DEF Chosen
<1>3. (CHOOSE j \in DOMAIN pick : pick[j] = pick[g]) = g
  BY <1>1
<1>4. \A tag \in gs[g] : tag \in Chosen(pick) => tag = pick[g]
  BY <1>1 DEF Chosen
<1> QED  BY <1>2, <1>3, <1>4 DEF Renamed

\* A new name is the name of the group of the chosen candidate.
LEMMA RenamedToGroup ==
  ASSUME NEW gs, NEW outbounds, GoodGroups(gs, outbounds),
         NEW pick, DOMAIN pick = DOMAIN gs, \A g \in DOMAIN pick : pick[g] \in gs[g],
         NEW tag, tag \in Chosen(pick)
  PROVE  Renamed(tag, pick) \in DOMAIN pick /\ pick[Renamed(tag, pick)] = tag
<1>1. PICK g \in DOMAIN pick : pick[g] = tag
  BY DEF Chosen
<1> QED  BY <1>1, GroupOfChosen

LEMMA ChosenAreCandidates ==
  ASSUME NEW gs, NEW pick, DOMAIN pick = DOMAIN gs, \A g \in DOMAIN pick : pick[g] \in gs[g]
  PROVE  Chosen(pick) \subseteq Candidates(gs)
BY DEF Chosen, Candidates

\* Every new name is a tag.
LEMMA RenamedIsTag ==
  ASSUME NEW gs, NEW outbounds, GoodGroups(gs, outbounds),
         NEW pick, IsPartial(pick, Tags, Tags),
         DOMAIN pick = DOMAIN gs, \A g \in DOMAIN pick : pick[g] \in gs[g],
         NEW tag \in Tags \union {NoTag}
  PROVE  Renamed(tag, pick) \in Tags \union {NoTag}
<1>1. CASE tag \in Chosen(pick)
  BY <1>1, RenamedToGroup DEF IsPartial
<1>2. CASE tag \notin Chosen(pick)
  BY <1>2 DEF Renamed
<1> QED  BY <1>1, <1>2

-----------------------------------------------------------------------------
(* What parsing makes of the directives.                                   *)

LEMMA ParsedGroups ==
  ASSUME template # NoTemplate, IsTemplate(template), cfg = template.outbounds,
         NEW keyOf \in Sanitized
  PROVE  /\ IsPartial(GroupsOf(keyOf), Tags, SUBSET Tags)
         /\ \A g \in DOMAIN GroupsOf(keyOf) : Several(GroupsOf(keyOf)[g])
         /\ GoodGroups(GroupsOf(keyOf), template.outbounds)
<1> DEFINE gs == GroupsOf(keyOf)
<1>1. /\ \A key \in UsableKeys : key \in Key /\ key.tag \in Tags /\ Usable(key)
      /\ \A key \in UsableKeys : Filtered(key) \subseteq Tags
  BY DEF UsableKeys, IsTemplate, IsPartial, Key, Filtered
<1>2. /\ DOMAIN keyOf = {key.tag : key \in UsableKeys}
      /\ \A g \in DOMAIN keyOf : keyOf[g] \in UsableKeys /\ keyOf[g].tag = g
  BY DEF Sanitized
<1>3. /\ DOMAIN gs \subseteq DOMAIN keyOf
      /\ \A g \in DOMAIN gs : gs[g] = Filtered(keyOf[g]) /\ \A tag \in gs[g] : ~Overlaps(tag)
  BY DEF GroupsOf
<1>4. DOMAIN gs \subseteq Tags
  BY <1>1, <1>2, <1>3
<1>5. gs \in [DOMAIN gs -> SUBSET Tags]
  BY <1>1, <1>2, <1>3 DEF GroupsOf
<1>6. \A g \in DOMAIN gs : Several(gs[g])
  BY <1>1, <1>2, <1>3 DEF Usable
<1>7. \A g \in DOMAIN gs : \A tag \in gs[g] :
        tag # NoTag /\ \E i \in DOMAIN template.outbounds : template.outbounds[i].tag = tag
  BY <1>3 DEF Filtered, AvailableTags
<1>8. \A g, j \in DOMAIN gs : g # j => gs[g] \intersect gs[j] = {}
  BY <1>2, <1>3 DEF Overlaps
<1>9. ASSUME NEW g \in DOMAIN gs, NEW i \in DOMAIN template.outbounds,
             template.outbounds[i].tag = g
      PROVE  g \in gs[g]
  <2>1. g \in AvailableTags
    BY <1>4, <1>9, BuildAssumption DEF AvailableTags
  <2> QED  BY <1>1, <1>2, <1>3, <2>1 DEF Usable
<1>10. GoodGroups(gs, template.outbounds)
  BY <1>7, <1>8, <1>9 DEF GoodGroups
<1> QED  BY <1>4, <1>5, <1>6, <1>10 DEF IsPartial

-----------------------------------------------------------------------------
(* The invariant.                                                          *)

LEMMA InitInv == Init => IndInv
<1> SUFFICES ASSUME Init PROVE IndInv
  OBVIOUS
<1>1. DOMAIN Empty = {} /\ IsPartial(Empty, Positions, Outbound)
      /\ IsPartial(Empty, Tags, SUBSET Tags) /\ IsPartial(Empty, Tags, Tags)
  BY DEF Empty, IsPartial
<1>2. TypeOK
  BY <1>1, BuildAssumption DEF Init, TypeOK, Steps
<1>3. Progress /\ PersonalIds
  BY DEF Init, Progress, PersonalIds
<1> QED  BY <1>2, <1>3 DEF IndInv

LEMMA SelectKeeps ==
  ASSUME IndInv, Select
  PROVE  IndInv'
<1>1. IsTemplate(template') \/ template' = NoTemplate
  BY DEF IndInv, TypeOK, Select, SelectTemplate, IsLibrary
<1>2. /\ at = "select" /\ cfg = Empty /\ groups = Empty /\ selected = Empty
      /\ UNCHANGED <<library, squads, groups, selected>>
  BY DEF IndInv, Progress, Select
<1>3. CASE template' = NoTemplate
  <2>1. cfg' = cfg /\ at' = "failed"
    BY <1>3 DEF Select
  <2>2. TypeOK'
    BY <1>2, <1>3, <2>1 DEF IndInv, TypeOK, Steps
  <2> QED  BY <1>2, <2>1, <2>2 DEF IndInv, Progress, PersonalIds
<1>4. CASE template' # NoTemplate
  <2>1. cfg' = template'.outbounds /\ at' = "parse"
    BY <1>4 DEF Select
  <2>2. IsPartial(cfg', Positions, Outbound)
    BY <1>1, <1>4, <2>1 DEF IsTemplate
  <2>3. TypeOK'
    BY <1>1, <1>2, <2>1, <2>2 DEF IndInv, TypeOK, Steps
  <2> QED  BY <1>2, <1>4, <2>1, <2>3 DEF IndInv, Progress, PersonalIds
<1> QED  BY <1>3, <1>4

LEMMA ParseKeeps ==
  ASSUME IndInv, ParseRandomizeGroups
  PROVE  IndInv'
<1>1. /\ at = "parse" /\ at' = "pick" /\ selected = Empty
      /\ template # NoTemplate /\ IsTemplate(template) /\ cfg = template.outbounds
      /\ UNCHANGED <<library, squads, template, cfg, selected>>
  BY DEF IndInv, TypeOK, Progress, ParseRandomizeGroups
<1>2. PICK keyOf \in Sanitized : groups' = GroupsOf(keyOf)
  BY DEF ParseRandomizeGroups
<1>3. /\ IsPartial(groups', Tags, SUBSET Tags)
      /\ \A g \in DOMAIN groups' : Several(groups'[g])
      /\ GoodGroups(groups', template.outbounds)
  BY <1>1, <1>2, ParsedGroups
<1>4. TypeOK'
  BY <1>1, <1>3 DEF IndInv, TypeOK, Steps, Empty
<1> QED  BY <1>1, <1>3, <1>4 DEF IndInv, Progress, PersonalIds

LEMMA PickKeeps ==
  ASSUME IndInv, SelectTargets \/ SelectTargetsFails
  PROVE  IndInv'
<1>1. at = "pick" /\ UNCHANGED <<library, squads, template, cfg, groups>>
  BY DEF SelectTargets, SelectTargetsFails
<1>2. CASE SelectTargets
  <2>1. PICK pick \in [DOMAIN groups -> Candidates(groups)] :
          (\A g \in DOMAIN groups : pick[g] \in groups[g]) /\ selected' = pick
    BY <1>2 DEF SelectTargets
  <2>2. DOMAIN groups \subseteq Tags /\ \A g \in DOMAIN groups : groups[g] \subseteq Tags
    BY DEF IndInv, TypeOK, IsPartial
  <2>3. IsPartial(selected', Tags, Tags) /\ DOMAIN selected' = DOMAIN groups
    BY <2>1, <2>2 DEF IsPartial
  <2>4. TypeOK'
    BY <1>1, <1>2, <2>1, <2>3 DEF IndInv, TypeOK, Steps, SelectTargets
  <2> QED  BY <1>1, <1>2, <2>3, <2>4 DEF IndInv, Progress, PersonalIds, SelectTargets
<1>3. CASE SelectTargetsFails
  BY <1>1, <1>3 DEF IndInv, TypeOK, Steps, Progress, PersonalIds, SelectTargetsFails
<1> QED  BY <1>2, <1>3

LEMMA TrimKeeps ==
  ASSUME IndInv, TrimRandomized
  PROVE  IndInv'
<1>1. /\ at = "trim" /\ at' = "rename" /\ template # NoTemplate
      /\ IsTemplate(template) /\ cfg = template.outbounds
      /\ UNCHANGED <<library, squads, template, groups, selected>>
      /\ cfg' = [i \in {i \in DOMAIN cfg : Stays(cfg[i].tag, groups, selected)} |-> cfg[i]]
  BY DEF IndInv, TypeOK, Progress, TrimRandomized
<1>2. /\ DOMAIN cfg' = {i \in DOMAIN cfg : Stays(cfg[i].tag, groups, selected)}
      /\ \A i \in DOMAIN cfg' : i \in DOMAIN cfg /\ cfg'[i] = template.outbounds[i]
  BY <1>1
<1>3. IsPartial(cfg', Positions, Outbound)
  BY <1>1, <1>2 DEF IndInv, TypeOK, IsPartial
<1>4. TypeOK'
  BY <1>1, <1>3 DEF IndInv, TypeOK, Steps
<1>5. Trimmed(cfg', template.outbounds, groups, selected)
  BY <1>1, <1>2 DEF Trimmed
<1>6. \A i \in DOMAIN cfg' : cfg'[i].tag = Was(i) /\ cfg'[i].id = "template"
  BY <1>1, <1>2 DEF IsTemplate, Was
<1>7. Progress'
  BY <1>1, <1>5, <1>6 DEF IndInv, Progress, Was
<1> QED  BY <1>1, <1>4, <1>7 DEF IndInv, PersonalIds

LEMMA RenameKeeps ==
  ASSUME IndInv, RenameSelected
  PROVE  IndInv'
<1>1. /\ at = "rename" /\ at' = "personalize" /\ template # NoTemplate
      /\ IsTemplate(template) /\ GoodGroups(groups, template.outbounds)
      /\ IsPartial(cfg, Positions, Outbound)
      /\ IsPartial(selected, Tags, Tags) /\ DOMAIN selected = DOMAIN groups
      /\ \A g \in DOMAIN selected : selected[g] \in groups[g]
      /\ Trimmed(cfg, template.outbounds, groups, selected)
      /\ \A i \in DOMAIN cfg : cfg[i].tag = Was(i) /\ cfg[i].id = "template"
      /\ UNCHANGED <<library, squads, template, groups, selected>>
  BY DEF IndInv, TypeOK, Progress, RenameSelected
<1>2. /\ DOMAIN cfg' = DOMAIN cfg
      /\ \A i \in DOMAIN cfg : cfg'[i] = [cfg[i] EXCEPT !.tag = Renamed(cfg[i].tag, selected)]
  BY DEF RenameSelected
<1>3. \A i \in DOMAIN cfg : cfg[i] \in Outbound /\ cfg[i].tag \in Tags \union {NoTag}
  BY <1>1 DEF IsPartial, Outbound
<1>4. \A i \in DOMAIN cfg : Renamed(cfg[i].tag, selected) \in Tags \union {NoTag}
  BY <1>1, <1>3, RenamedIsTag
<1>5. \A i \in DOMAIN cfg : /\ cfg'[i] \in Outbound
                           /\ cfg'[i].tag = Renamed(Was(i), selected)
                           /\ cfg'[i].vless = cfg[i].vless /\ cfg'[i].id = "template"
  BY <1>1, <1>2, <1>3, <1>4 DEF Outbound
<1>6. IsPartial(cfg', Positions, Outbound)
  <2>1. cfg' \in [DOMAIN cfg' -> Outbound]
    BY <1>2, <1>5 DEF RenameSelected
  <2> QED  BY <1>1, <1>2, <2>1 DEF IsPartial
<1>7. TypeOK'
  BY <1>1, <1>6 DEF IndInv, TypeOK, Steps
<1>8. Trimmed(cfg', template.outbounds, groups, selected) /\ Named(cfg', template.outbounds, selected)
  BY <1>1, <1>2, <1>5 DEF Trimmed, Named, Was
<1>9. Progress'
  BY <1>1, <1>2, <1>5, <1>8 DEF IndInv, Progress
<1> QED  BY <1>1, <1>7, <1>9 DEF IndInv, PersonalIds

LEMMA PersonalizeKeeps ==
  ASSUME IndInv, Personalize
  PROVE  IndInv'
<1>1. /\ at = "personalize" /\ at' = "done" /\ template # NoTemplate
      /\ GoodGroups(groups, template.outbounds)
      /\ IsPartial(cfg, Positions, Outbound) /\ DOMAIN selected = DOMAIN groups
      /\ Trimmed(cfg, template.outbounds, groups, selected)
      /\ Named(cfg, template.outbounds, selected)
      /\ \A i \in DOMAIN cfg : cfg[i].id = "template"
      /\ UNCHANGED <<library, squads, template, groups, selected>>
  BY DEF IndInv, TypeOK, Progress, Personalize
<1>2. /\ DOMAIN cfg' = DOMAIN cfg
      /\ \A i \in DOMAIN cfg : cfg'[i] = Personalized(cfg[i])
      /\ cfg' = [i \in DOMAIN cfg |-> Personalized(cfg[i])]
  BY DEF Personalize
<1>3. \A i \in DOMAIN cfg :
        /\ cfg'[i] \in Outbound /\ cfg'[i].tag = cfg[i].tag /\ cfg'[i].vless = cfg[i].vless
        /\ cfg'[i].id = "user" <=> cfg[i].vless /\ cfg[i].tag \notin template.skip
  <2>1. \A i \in DOMAIN cfg : cfg[i] \in Outbound
    BY <1>1 DEF IsPartial
  <2> QED  BY <1>1, <1>2, <2>1 DEF Personalized, SkipOutbound, Outbound
<1>4. IsPartial(cfg', Positions, Outbound)
  BY <1>1, <1>2, <1>3 DEF IsPartial
<1>5. TypeOK'
  BY <1>1, <1>4 DEF IndInv, TypeOK, Steps
<1>6. Trimmed(cfg', template.outbounds, groups, selected) /\ Named(cfg', template.outbounds, selected)
  <2>1. Trimmed(cfg', template.outbounds, groups, selected)
    BY <1>1, <1>2, <1>3 DEF Trimmed
  <2>2. Named(cfg', template.outbounds, selected)
    BY <1>1, <1>2, <1>3 DEF Named
  <2> QED  BY <2>1, <2>2
<1>7. Progress'
  <2>1. at' = "done" /\ template' # NoTemplate /\ DOMAIN selected' = DOMAIN groups'
    BY <1>1
  <2>2. GoodGroups(groups', template'.outbounds)
    BY <1>1
  <2>3. Trimmed(cfg', template'.outbounds, groups', selected') /\ Named(cfg', template'.outbounds, selected')
    BY <1>1, <1>6
  <2> QED  BY <2>1, <2>2, <2>3 DEF Progress
<1>8. PersonalIds'
  BY <1>1, <1>2, <1>3 DEF PersonalIds, Trimmed
<1> QED  BY <1>5, <1>7, <1>8 DEF IndInv

\* The inductive invariant of the call holds for any templates and users.
THEOREM Invariance == Spec => []IndInv
<1>1. IndInv /\ [Next]_vars => IndInv'
  <2> SUFFICES ASSUME IndInv, [Next]_vars PROVE IndInv'
    OBVIOUS
  <2>1. CASE UNCHANGED vars
    BY <2>1 DEF vars, IndInv, TypeOK, Progress, PersonalIds, Was
  <2> QED
    BY <2>1, SelectKeeps, ParseKeeps, PickKeeps, TrimKeeps, RenameKeeps, PersonalizeKeeps DEF Next
<1> QED  BY <1>1, InitInv, PTL DEF Spec

-----------------------------------------------------------------------------
(* What an answer looks like.                                              *)

\* An answer, as the invariant describes it.
LEMMA Answered ==
  ASSUME IndInv, at = "done"
  PROVE  /\ GoodGroups(groups, template.outbounds)
         /\ DOMAIN selected = DOMAIN groups /\ \A g \in DOMAIN selected : selected[g] \in groups[g]
         /\ \A i \in DOMAIN template.outbounds :
              Stays(Was(i), groups, selected) => i \in DOMAIN cfg
         /\ \A i \in DOMAIN cfg :
              /\ i \in DOMAIN template.outbounds
              /\ Stays(Was(i), groups, selected)
              /\ cfg[i].tag = Renamed(Was(i), selected)
BY DEF IndInv, TypeOK, Progress, Trimmed, Named, Was

\* Of each group in use the chosen outbound stays, under the group's name, and no
\* other candidate.
THEOREM GroupsKeptHolds == Spec => []GroupsKept
<1>1. IndInv => GroupsKept
  <2> SUFFICES ASSUME IndInv, at = "done", NEW g \in DOMAIN groups
               PROVE  /\ \E i \in DOMAIN cfg : cfg[i].tag = g
                      /\ \A i \in DOMAIN cfg : Was(i) \in groups[g] =>
                           Was(i) = selected[g] /\ cfg[i].tag = g
    BY DEF GroupsKept
  <2>1. /\ selected[g] \in Chosen(selected) /\ Renamed(selected[g], selected) = g
        /\ \A tag \in groups[g] : tag \in Chosen(selected) => tag = selected[g]
    BY Answered, GroupOfChosen
  <2>2. PICK i \in DOMAIN template.outbounds : Was(i) = selected[g]
    BY Answered DEF GoodGroups, Was
  <2>3. i \in DOMAIN cfg /\ cfg[i].tag = g
    BY <2>1, <2>2, Answered DEF Stays
  <2>4. \A j \in DOMAIN cfg : Was(j) \in groups[g] => Was(j) = selected[g] /\ cfg[j].tag = g
    BY <2>1, Answered DEF Stays, Candidates
  <2> QED  BY <2>3, <2>4
<1> QED  BY <1>1, Invariance, PTL

\* Outbounds that are no candidate stay with their tags.
THEOREM RestStaysHolds == Spec => []RestStays
<1>1. IndInv => RestStays
  <2> SUFFICES ASSUME IndInv, at = "done", NEW i \in DOMAIN template.outbounds,
                      Was(i) \notin Candidates(groups)
               PROVE  i \in DOMAIN cfg /\ cfg[i].tag = Was(i)
    BY DEF RestStays
  <2>1. i \in DOMAIN cfg /\ cfg[i].tag = Renamed(Was(i), selected)
    BY Answered DEF Stays
  <2>2. Was(i) \notin Chosen(selected)
    BY Answered, ChosenAreCandidates
  <2> QED  BY <2>1, <2>2 DEF Renamed
<1> QED  BY <1>1, Invariance, PTL

\* An answer has distinct tags if its template has.
THEOREM TagsStayUniqueHolds == Spec => []TagsStayUnique
<1>1. IndInv => TagsStayUnique
  <2> SUFFICES ASSUME IndInv, at = "done", Distinct(template.outbounds),
                      NEW i \in DOMAIN cfg, NEW j \in DOMAIN cfg,
                      i # j, cfg[i].tag # NoTag, cfg[i].tag = cfg[j].tag
               PROVE  FALSE
    BY DEF TagsStayUnique, Distinct
  <2> USE Answered
  <2>1. \A k \in DOMAIN cfg : Was(k) \in Chosen(selected) =>
          /\ cfg[k].tag \in DOMAIN selected /\ selected[cfg[k].tag] = Was(k) /\ Was(k) # NoTag
    <3> SUFFICES ASSUME NEW k \in DOMAIN cfg, Was(k) \in Chosen(selected)
                 PROVE  /\ cfg[k].tag \in DOMAIN selected /\ selected[cfg[k].tag] = Was(k)
                        /\ Was(k) # NoTag
      OBVIOUS
    <3>1. Renamed(Was(k), selected) \in DOMAIN selected /\ selected[Renamed(Was(k), selected)] = Was(k)
      BY RenamedToGroup
    <3>2. cfg[k].tag = Renamed(Was(k), selected)
      OBVIOUS
    <3>3. Was(k) \in groups[cfg[k].tag]
      BY <3>1, <3>2
    <3> QED  BY <3>1, <3>2, <3>3 DEF GoodGroups
  <2>2. \A k \in DOMAIN cfg : Was(k) \notin Chosen(selected) =>
          cfg[k].tag = Was(k) /\ Was(k) \notin DOMAIN groups
    <3> SUFFICES ASSUME NEW k \in DOMAIN cfg, Was(k) \notin Chosen(selected)
                 PROVE  cfg[k].tag = Was(k) /\ Was(k) \notin DOMAIN groups
      OBVIOUS
    <3>1. Was(k) \notin Candidates(groups)
      BY DEF Stays
    <3>2. Was(k) \in DOMAIN groups => Was(k) \in groups[Was(k)]
      BY DEF GoodGroups, Was
    <3> QED  BY <3>1, <3>2 DEF Renamed, Candidates
  <2>3. Was(i) # NoTag => Was(i) # Was(j)
    BY DEF Distinct, Was
  <2>4. CASE Was(i) \in Chosen(selected)
    BY <2>1, <2>2, <2>3, <2>4
  <2>5. CASE Was(i) \notin Chosen(selected)
    BY <2>1, <2>2, <2>3, <2>5
  <2> QED  BY <2>4, <2>5
<1> QED  BY <1>1, Invariance, PTL

\* The user's id is in exactly the vless outbounds whose tag is not skipped.
THEOREM PersonalIdsHolds == Spec => []PersonalIds
<1>1. IndInv => PersonalIds
  BY DEF IndInv
<1> QED  BY <1>1, Invariance, PTL

\* The variables keep their types.
THEOREM TypeCorrect == Spec => []TypeOK
<1>1. IndInv => TypeOK
  BY DEF IndInv
<1> QED  BY <1>1, Invariance, PTL

-----------------------------------------------------------------------------
(* Names and lists. *)

\* A number makes different names of different names, and of different numbers.
LEMMA NumberedInjective ==
  ASSUME NEW x \in Names, NEW y \in Names, NEW m \in Nat, NEW n \in Nat,
         Numbered(x, m) = Numbered(y, n)
  PROVE  x = y /\ m = n
<1>1. /\ x.numbers \in Seq(Nat) /\ x = [base |-> x.base, numbers |-> x.numbers]
      /\ y.numbers \in Seq(Nat) /\ y = [base |-> y.base, numbers |-> y.numbers]
  BY MergeAssumption
<1>2. /\ Numbered(x, m).base = x.base /\ Numbered(x, m).numbers = Append(x.numbers, m)
      /\ Numbered(y, n).base = y.base /\ Numbered(y, n).numbers = Append(y.numbers, n)
  BY <1>1 DEF Numbered
<1>3. x.base = y.base /\ Append(x.numbers, m) = Append(y.numbers, n)
  BY <1>2
<1>4. x.numbers = y.numbers /\ m = n
  BY <1>1, <1>3, AppendInjective
<1> QED
  BY <1>1, <1>3, <1>4

LEMMA EntryFacts ==
  ASSUME MergeTypeOK, NEW p \in DOMAIN entries
  PROVE  /\ entries[p] \in Entry /\ DOMAIN entries = 1..Len(entries) /\ Len(entries) \in Nat
         /\ entries[p].rules \in Seq(Rule) /\ Len(entries[p].rules) \in Nat
         /\ DOMAIN entries[p].rules = 1..Len(entries[p].rules)
         /\ entries[p].proxies \in Seq(Names \union {Unnamed, NoMap})
<1>1. entries \in Seq(Entry)
  BY DEF MergeTypeOK
<1>2. DOMAIN entries = 1..Len(entries) /\ Len(entries) \in Nat
  BY <1>1
<1>3. entries[p] \in Entry
  BY <1>1, <1>2
<1>4. entries[p].rules \in Seq(Rule) /\ entries[p].proxies \in Seq(Names \union {Unnamed, NoMap})
  BY <1>3 DEF Entry
<1>5. Len(entries[p].rules) \in Nat /\ DOMAIN entries[p].rules = 1..Len(entries[p].rules)
  BY <1>4
<1> QED
  BY <1>2, <1>3, <1>4, <1>5

LEMMA ProxyFacts ==
  ASSUME MergeTypeOK, NEW k \in DOMAIN proxies
  PROVE  /\ proxies[k] = [name |-> proxies[k].name, nth |-> proxies[k].nth]
         /\ proxies[k].name \in Names /\ proxies[k].nth \in Nat \ {0}
         /\ nameCounts[proxies[k].name] \in Nat
<1> DEFINE S == [name : Names, nth : Nat \ {0}]
<1>1. proxies \in Seq(S) /\ nameCounts \in [Names -> Nat]
  BY DEF MergeTypeOK
<1>2. proxies[k] \in S
  <2> HIDE DEF S
  <2> QED
    BY <1>1
<1>3. proxies[k].name \in Names
  BY <1>2
<1> QED
  BY <1>1, <1>2, <1>3

-----------------------------------------------------------------------------
(* Initial states. *)

LEMMA MergeInitInv == MergeInit => MergeInv
<1> SUFFICES ASSUME MergeInit PROVE MergeInv
  OBVIOUS
<1>1. MergeTypeOK
  BY MergeAssumption DEF MergeInit, MergeTypeOK
<1>2. RulesDone(1) = 0 /\ (\A p \in DOMAIN entries : RulesDone(p) = 0)
  BY <1>1, EntryFacts DEF MergeInit, RulesDone
<1>3. \A p \in DOMAIN entries : 1..RulesDone(p) = {}
  BY <1>2
<1> QED
  BY <1>1, <1>2, <1>3
  DEF MergeInit, MergeInv, InPlace, ProxiesCounted, RulesKept, SomeIsFirst, FirstProfileFirst

-----------------------------------------------------------------------------
(* Steps. *)

\* A step that reads no rule, and takes the list to no earlier profile.
RulesSame ==
  /\ UNCHANGED <<entries, rules>> /\ (profile' = 1 => profile = 1)
  /\ \A p \in DOMAIN entries \union {1} : RulesDone(p)' = RulesDone(p)

LEMMA RulesUnchanged ==
  ASSUME MergeInv, RulesSame
  PROVE  RulesKept' /\ SomeIsFirst' /\ FirstProfileFirst'
<1>1. RulesKept'
  BY DEF MergeInv, RulesKept, RulesSame, Known
<1>2. SomeIsFirst'
  BY DEF MergeInv, SomeIsFirst, RulesSame, FirstMatch
<1>3. FirstProfileFirst'
  BY DEF MergeInv, FirstProfileFirst, RulesSame, FirstMatch
<1> QED
  BY <1>1, <1>2, <1>3

\* The ways a call ends, and the start of the merge.
LEMMA EndsStep ==
  ASSUME MergeInv, NEW outcome \in {"failed", "joined", "merged", "proxies"}, Ends(outcome),
         step \in {"parse", "proxies"},
         outcome = "merged" => profile > Len(entries) /\ step = "proxies",
         outcome = "proxies" => Len(entries) > 1
  PROVE  MergeInv'
<1>1. /\ step' = outcome /\ UNCHANGED <<entries, profile, item, nameCounts, proxies, rules>>
      /\ MergeTypeOK /\ InPlace
  BY DEF Ends, MergeInv
<1>2. MergeTypeOK'
  BY <1>1 DEF MergeTypeOK
<1>3. InPlace'
  <2>1. profile \in 1..(Len(entries) + 1) /\ Len(entries) \in Nat
    BY <1>1 DEF MergeTypeOK
  <2> QED
    BY <1>1, <2>1 DEF InPlace
<1>4. ProxiesCounted'
  BY <1>1 DEF MergeInv, ProxiesCounted
<1>5. RulesSame
  BY <1>1 DEF RulesSame, RulesDone
<1> QED
  BY <1>2, <1>3, <1>4, <1>5, RulesUnchanged DEF MergeInv

LEMMA TakeProxyStep ==
  ASSUME MergeInv, TakeProxy
  PROVE  MergeInv'
<1>1. PICK name \in Read(Current.proxies) \intersect Names :
        /\ proxies' = Append(proxies, [name |-> name, nth |-> nameCounts[name] + 1])
        /\ nameCounts' = [nameCounts EXCEPT ![name] = @ + 1]
  BY DEF TakeProxy, Counted
<1>2. /\ item' = item + 1 /\ UNCHANGED <<entries, step, profile, rules>>
      /\ step = "proxies" /\ MergeTypeOK /\ InPlace /\ ProxiesCounted
  BY DEF TakeProxy, Reading, MergeInv
<1> DEFINE new == [name |-> name, nth |-> nameCounts[name] + 1]
<1>3. /\ nameCounts \in [Names -> Nat] /\ proxies \in Seq([name : Names, nth : Nat \ {0}])
      /\ new \in [name : Names, nth : Nat \ {0}] /\ new.name = name /\ new.nth = nameCounts[name] + 1
  BY <1>1, <1>2 DEF MergeTypeOK
<1>4. /\ nameCounts' \in [Names -> Nat] /\ nameCounts'[name] = nameCounts[name] + 1
      /\ \A other \in Names : other # name => nameCounts'[other] = nameCounts[other]
  BY <1>1, <1>3
<1>5. /\ proxies' \in Seq([name : Names, nth : Nat \ {0}]) /\ Len(proxies') = Len(proxies) + 1
      /\ \A k \in 1..Len(proxies) : proxies'[k] = proxies[k]
      /\ proxies'[Len(proxies) + 1] = new /\ Len(proxies) \in Nat
      /\ DOMAIN proxies' = 1..(Len(proxies) + 1) /\ DOMAIN proxies = 1..Len(proxies)
  <2> HIDE DEF new
  <2> QED
    BY <1>1, <1>3, AppendProperties DEF new
<1>6. MergeTypeOK'
  BY <1>2, <1>4, <1>5 DEF MergeTypeOK
<1>7. InPlace'
  BY <1>2 DEF InPlace
<1>8. ProxiesCounted'
  <2>1. \A k \in 1..Len(proxies) :
          /\ proxies[k].name \in Names /\ proxies[k].nth \in Nat
          /\ nameCounts[proxies[k].name] \in Nat
          /\ proxies[k].nth <= nameCounts[proxies[k].name]
    <3> SUFFICES ASSUME NEW k \in 1..Len(proxies)
                 PROVE  /\ proxies[k].name \in Names /\ proxies[k].nth \in Nat
                        /\ nameCounts[proxies[k].name] \in Nat
                        /\ proxies[k].nth <= nameCounts[proxies[k].name]
      OBVIOUS
    <3>1. k \in DOMAIN proxies
      BY <1>5
    <3> QED
      BY <1>2, <3>1, ProxyFacts DEF ProxiesCounted
  <2>2. \A k \in 1..Len(proxies) : proxies[k] # new
    <3> SUFFICES ASSUME NEW k \in 1..Len(proxies), proxies[k] = new
                 PROVE  FALSE
      OBVIOUS
    <3>1. proxies[k].name = name /\ proxies[k].nth = nameCounts[name] + 1
      BY <1>3
    <3> QED
      BY <2>1, <3>1
  <2>3. \A k \in DOMAIN proxies' : proxies'[k].nth <= nameCounts'[proxies'[k].name]
    <3> SUFFICES ASSUME NEW k \in DOMAIN proxies'
                 PROVE  proxies'[k].nth <= nameCounts'[proxies'[k].name]
      OBVIOUS
    <3>1. CASE k = Len(proxies) + 1
      BY <1>3, <1>4, <1>5, <3>1
    <3>2. CASE k \in 1..Len(proxies)
      <4>1. proxies'[k] = proxies[k]
        BY <1>5, <3>2
      <4>2. nameCounts[proxies[k].name] <= nameCounts'[proxies[k].name]
        <5>1. CASE proxies[k].name = name
          BY <1>4, <2>1, <3>2, <5>1
        <5>2. CASE proxies[k].name # name
          BY <1>4, <2>1, <3>2, <5>2
        <5> QED
          BY <5>1, <5>2
      <4>3. nameCounts'[proxies[k].name] \in Nat
        BY <1>4, <2>1, <3>2
      <4> QED
        BY <2>1, <3>2, <4>1, <4>2, <4>3
    <3> QED
      BY <1>5, <3>1, <3>2
  <2>4. \A k, l \in DOMAIN proxies' : proxies'[k] = proxies'[l] => k = l
    <3> HIDE DEF new
    <3> QED
      BY <1>2, <1>5, <2>2 DEF ProxiesCounted
  <2> QED
    BY <2>3, <2>4 DEF ProxiesCounted
<1>9. RulesSame
  BY <1>2 DEF RulesSame, RulesDone
<1> QED
  BY <1>6, <1>7, <1>8, <1>9, RulesUnchanged DEF MergeInv

\* A proxy is skipped, and the last one was read.
LEMMA ProxiesStep ==
  ASSUME MergeInv, SkipProxy \/ ProxiesRead
  PROVE  MergeInv'
<1>1. /\ UNCHANGED <<entries, profile, nameCounts, proxies, rules>> /\ item' \in Nat
      /\ step = "proxies" /\ profile <= Len(entries)
      /\ (step' = "proxies" \/ (step' = "rules" /\ item' = 0))
  <2>1. CASE SkipProxy
    BY <2>1 DEF SkipProxy, Reading, MergeInv, MergeTypeOK
  <2>2. CASE ProxiesRead
    BY <2>2 DEF ProxiesRead, Reading
  <2> QED
    BY <2>1, <2>2
<1>2. MergeTypeOK /\ InPlace
  BY DEF MergeInv
<1>3. MergeTypeOK' /\ ProxiesCounted'
  BY <1>1 DEF MergeInv, MergeTypeOK, ProxiesCounted
<1>4. InPlace'
  <2>1. profile \in DOMAIN entries
    BY <1>1, <1>2 DEF MergeTypeOK
  <2> QED
    BY <1>1, <1>2, <2>1, EntryFacts DEF InPlace
<1>5. RulesSame
  BY <1>1 DEF RulesSame, RulesDone
<1> QED
  BY <1>3, <1>4, <1>5, RulesUnchanged DEF MergeInv

LEMMA RulesReadStep ==
  ASSUME MergeInv, RulesRead
  PROVE  MergeInv'
<1>1. /\ UNCHANGED <<entries, nameCounts, proxies, rules>> /\ profile' = profile + 1 /\ item' = 0
      /\ step = "rules" /\ step' = "proxies" /\ profile <= Len(entries)
      /\ MergeTypeOK /\ InPlace
  BY DEF RulesRead, Reading, MergeInv
<1>2. /\ profile \in 1..Len(entries) /\ Len(entries) \in Nat /\ DOMAIN entries = 1..Len(entries)
      /\ Len(entries[profile].rules) \in Nat
  <2>1. profile \in 1..Len(entries) /\ Len(entries) \in Nat /\ DOMAIN entries = 1..Len(entries)
    BY <1>1 DEF MergeTypeOK
  <2> QED
    BY <1>1, <2>1, EntryFacts
<1>3. MergeTypeOK' /\ InPlace' /\ ProxiesCounted'
  BY <1>1, <1>2 DEF MergeInv, MergeTypeOK, InPlace, ProxiesCounted
<1>4. item = Len(entries[profile].rules)
  <2>1. item \in Nat /\ item <= Len(entries[profile].rules)
    BY <1>1 DEF InPlace, MergeTypeOK
  <2>2. ~(item < Len(entries[profile].rules))
    BY DEF RulesRead, Read, Current
  <2> QED
    BY <1>2, <2>1, <2>2
<1>5. RulesSame
  BY <1>1, <1>2, <1>4 DEF RulesSame, RulesDone
<1> QED
  BY <1>3, <1>5, RulesUnchanged DEF MergeInv

\* One more rule of a list was read, and the rules kept are as many or one more.
LEMMA TakeRuleStep ==
  ASSUME MergeInv, TakeRule
  PROVE  MergeInv'
<1>1. PICK rule \in Read(Current.rules) :
        rules' = IF KeepRule(rule) /\ ~Known(rule) THEN Append(rules, rule) ELSE rules
  BY DEF TakeRule
<1>2. /\ item' = item + 1 /\ UNCHANGED <<entries, step, profile, nameCounts, proxies>>
      /\ step = "rules" /\ profile <= Len(entries) /\ MergeTypeOK /\ InPlace
  BY DEF TakeRule, Reading, MergeInv
<1>3. profile \in DOMAIN entries /\ item \in Nat /\ profile \in Nat
  BY <1>2 DEF MergeTypeOK
<1>4. /\ item + 1 \in 1..Len(entries[profile].rules) /\ rule = entries[profile].rules[item + 1]
      /\ rule \in Rule
  <2>1. item < Len(entries[profile].rules) /\ rule = entries[profile].rules[item + 1]
    BY <1>1 DEF Read, Current
  <2>2. item + 1 \in 1..Len(entries[profile].rules)
    BY <1>2, <1>3, <2>1, EntryFacts
  <2> QED
    BY <1>2, <1>3, <2>1, <2>2, EntryFacts
<1>5. /\ \A p : \A i \in 1..RulesDone(p)' : i \in 1..RulesDone(p) \/ (p = profile /\ i = item + 1)
      /\ \A p : \A i \in 1..RulesDone(p) : i \in 1..RulesDone(p)'
      /\ 1..RulesDone(profile) = 1..item /\ item + 1 \in 1..RulesDone(profile)'
  <2>1. RulesDone(profile) = item /\ RulesDone(profile)' = item + 1
    BY <1>2, <1>3 DEF RulesDone
  <2>2. \A p : p # profile => RulesDone(p)' = RulesDone(p)
    BY <1>2 DEF RulesDone
  <2>3. \A i : (i \in 1..(item + 1) <=> (i \in 1..item \/ i = item + 1))
    BY <1>3
  <2>4. ASSUME NEW p PROVE \A i \in 1..RulesDone(p)' : i \in 1..RulesDone(p) \/ (p = profile /\ i = item + 1)
    <3>1. CASE p = profile
      BY <1>2, <2>1, <2>3, <3>1
    <3>2. CASE p # profile
      BY <2>2, <3>2
    <3> QED
      BY <3>1, <3>2
  <2>5. ASSUME NEW p PROVE \A i \in 1..RulesDone(p) : i \in 1..RulesDone(p)'
    <3>1. CASE p = profile
      BY <1>2, <2>1, <2>3, <3>1
    <3>2. CASE p # profile
      BY <2>2, <3>2
    <3> QED
      BY <3>1, <3>2
  <2>6. item + 1 \in 1..(item + 1)
    BY <1>3
  <2> QED
    BY <2>1, <2>4, <2>5, <2>6
<1>6. rules \in Seq(Rule)
  BY <1>2 DEF MergeTypeOK
<1>7. PICK n \in Nat, m \in Nat :
        /\ DOMAIN rules = 1..n /\ DOMAIN rules' = 1..m /\ (m = n \/ m = n + 1)
        /\ \A j \in 1..n : rules'[j] = rules[j]
        /\ (m = n + 1 => KeepRule(rule) /\ ~Known(rule) /\ rules'[n + 1] = rule)
        /\ (KeepRule(rule) /\ ~Known(rule) => m = n + 1)
        /\ rules' \in Seq(Rule)
  <2>1. CASE KeepRule(rule) /\ ~Known(rule)
    <3>1. rules' = Append(rules, rule)
      BY <1>1, <2>1
    <3>2. /\ rules' \in Seq(Rule) /\ Len(rules') = Len(rules) + 1 /\ rules'[Len(rules) + 1] = rule
          /\ \A j \in 1..Len(rules) : rules'[j] = rules[j]
      BY <1>4, <1>6, <3>1, AppendProperties
    <3>3. /\ Len(rules) \in Nat /\ Len(rules) + 1 \in Nat
          /\ DOMAIN rules = 1..Len(rules) /\ DOMAIN rules' = 1..(Len(rules) + 1)
      BY <1>6, <3>2, LenProperties
    <3> QED
      BY <2>1, <3>2, <3>3
  <2>2. CASE ~(KeepRule(rule) /\ ~Known(rule))
    <3>1. rules' = rules
      BY <1>1, <2>2
    <3>2. Len(rules) \in Nat /\ DOMAIN rules = 1..Len(rules)
      BY <1>6, LenProperties
    <3>3. /\ DOMAIN rules' = 1..Len(rules) /\ rules' \in Seq(Rule)
          /\ \A j \in 1..Len(rules) : rules'[j] = rules[j]
      BY <1>6, <3>1, <3>2
    <3>4. \A k \in Nat : k # k + 1
      OBVIOUS
    <3> QED
      BY <2>2, <3>2, <3>3, <3>4
  <2> QED
    BY <2>1, <2>2
<1>8. \A d : \A j \in DOMAIN rules : FirstMatch(rules, d, j) => FirstMatch(rules', d, j)
  BY <1>7 DEF FirstMatch
<1>9. MergeTypeOK'
  BY <1>2, <1>3, <1>7 DEF MergeTypeOK
<1>10. InPlace'
  BY <1>2, <1>3, <1>4 DEF InPlace
<1>11. ProxiesCounted'
  BY <1>2 DEF MergeInv, ProxiesCounted
<1>12. RulesKept'
  <2>1. \A other : Known(other) => Known(other)'
    BY <1>7 DEF Known
  <2>2. KeepRule(rule) => Known(rule)'
    BY <1>7, <2>1 DEF Known
  <2>3. \A j \in DOMAIN rules' : KeepRule(rules'[j])
    BY <1>7 DEF MergeInv, RulesKept
  <2>4. ASSUME NEW p \in DOMAIN entries, NEW i \in 1..RulesDone(p)', KeepRule(entries[p].rules[i])
        PROVE  Known(entries[p].rules[i])'
    <3>1. CASE i \in 1..RulesDone(p)
      BY <1>2, <2>1, <2>4, <3>1 DEF MergeInv, RulesKept
    <3>2. CASE i \notin 1..RulesDone(p)
      <4>1. p = profile /\ i = item + 1
        BY <1>3, <1>5, <2>4, <3>2
      <4> QED
        BY <1>2, <1>4, <2>2, <2>4, <4>1
    <3> QED
      BY <3>1, <3>2
  <2> QED
    BY <1>2, <2>3, <2>4 DEF RulesKept
<1>13. SomeIsFirst'
  <2> SUFFICES ASSUME NEW d \in Destinations, NEW j \in DOMAIN rules', d \in rules'[j].match
               PROVE  \E k \in DOMAIN rules' : FirstMatch(rules', d, k)
    BY DEF SomeIsFirst
  <2>1. CASE \E k \in DOMAIN rules : d \in rules[k].match
    <3>1. PICK k \in DOMAIN rules : FirstMatch(rules, d, k)
      BY <2>1 DEF MergeInv, SomeIsFirst
    <3> QED
      BY <1>7, <1>8, <3>1
  <2>2. CASE \A k \in DOMAIN rules : d \notin rules[k].match
    <3>1. j = n + 1
      BY <1>7, <2>2
    <3>2. FirstMatch(rules', d, j)
      BY <1>7, <2>2, <3>1 DEF FirstMatch
    <3> QED
      BY <3>2
  <2> QED
    BY <2>1, <2>2
<1>14. profile = 1 => \A j \in DOMAIN rules' : \E i \in 1..RulesDone(1)' : rules'[j] = entries[1].rules[i]
  <2> SUFFICES ASSUME profile = 1, NEW j \in DOMAIN rules'
               PROVE  \E i \in 1..RulesDone(1)' : rules'[j] = entries[1].rules[i]
    OBVIOUS
  <2>1. CASE j \in DOMAIN rules
    BY <1>3, <1>5, <1>7, <2>1 DEF MergeInv, FirstProfileFirst
  <2>2. CASE j \notin DOMAIN rules
    <3>1. rules'[j] = rule
      BY <1>7, <2>2
    <3> QED
      BY <1>2, <1>4, <1>5, <3>1
  <2> QED
    BY <2>1, <2>2
<1>15. ASSUME NEW d \in Destinations, NEW i \in 1..RulesDone(1)',
              FirstMatch(entries[1].rules, d, i), entries[1].rules[i].target \in Past
       PROVE  \E j \in DOMAIN rules' : FirstMatch(rules', d, j) /\ rules'[j] = entries[1].rules[i]
  <2>1. CASE i \in 1..RulesDone(1)
    <3>1. PICK j \in DOMAIN rules : FirstMatch(rules, d, j) /\ rules[j] = entries[1].rules[i]
      BY <1>15, <2>1 DEF MergeInv, FirstProfileFirst
    <3> QED
      BY <1>7, <1>8, <3>1
  <2>2. CASE i \notin 1..RulesDone(1)
    <3>1. profile = 1 /\ i = item + 1 /\ rule = entries[1].rules[i]
      BY <1>3, <1>4, <1>5, <1>15, <2>2
    <3>2. \A j \in DOMAIN rules : d \notin rules[j].match
      <4> SUFFICES ASSUME NEW j \in DOMAIN rules PROVE d \notin rules[j].match
        OBVIOUS
      <4>1. PICK k \in 1..item : rules[j] = entries[1].rules[k]
        BY <1>5, <3>1 DEF MergeInv, FirstProfileFirst
      <4>2. k \in 1..(i - 1)
        BY <1>3, <3>1, <4>1
      <4> QED
        BY <1>15, <4>1, <4>2 DEF FirstMatch
    <3>3. d \in rule.match /\ KeepRule(rule) /\ ~Known(rule)
      BY <1>15, <3>1, <3>2 DEF FirstMatch, KeepRule, Known
    <3>4. n + 1 \in DOMAIN rules' /\ rules'[n + 1] = rule
      BY <1>7, <3>3
    <3>5. FirstMatch(rules', d, n + 1)
      BY <1>7, <3>2, <3>3, <3>4 DEF FirstMatch
    <3> QED
      BY <3>1, <3>4, <3>5
  <2> QED
    BY <2>1, <2>2
<1>16. FirstProfileFirst'
  BY <1>2, <1>14, <1>15 DEF FirstProfileFirst
<1> QED
  BY <1>9, <1>10, <1>11, <1>12, <1>13, <1>16 DEF MergeInv

LEMMA MergeNextInv == MergeInv /\ [MergeNext]_mihomoVars => MergeInv'
<1> SUFFICES ASSUME MergeInv, [MergeNext]_mihomoVars PROVE MergeInv'
  OBVIOUS
<1>1. CASE ParseFails \/ ParseOne \/ Parse
  BY <1>1, EndsStep DEF ParseFails, ParseOne, Parse
<1>2. CASE NotStandalone \/ UnnamedProxy \/ CloneFails \/ MergeFails
  BY <1>2, EndsStep DEF NotStandalone, UnnamedProxy, CloneFails, MergeFails, Reading
<1>3. CASE Merge
  <2>1. PICK outcome \in {"joined", "merged"} : Ends(outcome)
    BY <1>3 DEF Merge
  <2> QED
    BY <1>3, <2>1, EndsStep DEF Merge
<1>4. CASE UNCHANGED mihomoVars
  <2>1. UNCHANGED <<entries, step, profile, item, nameCounts, proxies, rules>>
    BY <1>4 DEF mihomoVars
  <2>2. MergeTypeOK' /\ InPlace' /\ ProxiesCounted' /\ RulesSame
    BY <2>1 DEF MergeInv, MergeTypeOK, InPlace, ProxiesCounted, RulesSame, RulesDone
  <2> QED
    BY <2>2, RulesUnchanged DEF MergeInv
<1> QED
  BY <1>1, <1>2, <1>3, <1>4, TakeProxyStep, ProxiesStep, TakeRuleStep, RulesReadStep DEF MergeNext

-----------------------------------------------------------------------------
(* The theorems. *)

\* Every call keeps the invariant.
THEOREM MergeInvariance == MergeSpec => []MergeInv
<1>1. MergeInit => MergeInv
  BY MergeInitInv
<1>2. MergeInv /\ [MergeNext]_mihomoVars => MergeInv'
  BY MergeNextInv
<1> QED
  BY <1>1, <1>2, PTL DEF MergeSpec

\* Every variable of the merge has its type.
THEOREM MergeTypeCorrect == MergeSpec => []MergeTypeOK
<1>1. MergeInv => MergeTypeOK
  BY DEF MergeInv
<1> QED
  BY <1>1, MergeInvariance, PTL

\* Two proxies of a merged profile have the same name only if a profile writes
\* a name with a number that the merge gives, too.
THEOREM MergedNamesApart == MergeSpec => []NamesApart
<1>1. MergeInv => NamesApart
  <2> SUFFICES ASSUME MergeInv, NEW i \in DOMAIN proxies, NEW j \in DOMAIN proxies,
                      i # j, AnswerName(proxies[i]) = AnswerName(proxies[j])
               PROVE  \E k, l \in DOMAIN proxies : \E n \in 2..nameCounts[proxies[l].name] :
                        proxies[k].name = Numbered(proxies[l].name, n)
    BY DEF NamesApart
  <2>1. \A k \in DOMAIN proxies :
          /\ proxies[k] = [name |-> proxies[k].name, nth |-> proxies[k].nth]
          /\ proxies[k].name \in Names /\ proxies[k].nth \in Nat \ {0}
          /\ nameCounts[proxies[k].name] \in Nat
          /\ proxies[k].nth <= nameCounts[proxies[k].name]
    BY ProxyFacts DEF MergeInv, ProxiesCounted
  <2>2. proxies[i] # proxies[j]
    BY DEF MergeInv, ProxiesCounted
  <2>3. \A k, l \in DOMAIN proxies :
          proxies[k].nth = 1 /\ proxies[l].nth # 1 /\ AnswerName(proxies[k]) = AnswerName(proxies[l]) =>
            /\ proxies[l].nth \in 2..nameCounts[proxies[l].name]
            /\ proxies[k].name = Numbered(proxies[l].name, proxies[l].nth)
    BY <2>1 DEF AnswerName
  <2>4. CASE proxies[i].nth = 1 /\ proxies[j].nth = 1
    BY <2>1, <2>2, <2>4 DEF AnswerName
  <2>5. CASE proxies[i].nth # 1 /\ proxies[j].nth # 1
    <3>1. Numbered(proxies[i].name, proxies[i].nth) = Numbered(proxies[j].name, proxies[j].nth)
      BY <2>5 DEF AnswerName
    <3>2. proxies[i].name = proxies[j].name /\ proxies[i].nth = proxies[j].nth
      BY <2>1, <3>1, NumberedInjective
    <3> QED
      BY <2>1, <2>2, <3>2
  <2>6. CASE proxies[i].nth = 1 /\ proxies[j].nth # 1
    BY <2>3, <2>6
  <2>7. CASE proxies[i].nth # 1 /\ proxies[j].nth = 1
    BY <2>3, <2>7
  <2> QED
    BY <2>4, <2>5, <2>6, <2>7
<1> QED
  BY <1>1, MergeInvariance, PTL

\* What a profile keeps off the proxies, the merge of all keeps off them, and
\* decides as the first profile where that one does.
THEOREM MergedNeverProxiedMore == MergeSpec => []NeverProxiedMore
<1>1. MergeInv => NeverProxiedMore
  <2> SUFFICES ASSUME MergeInv, step = "merged", NEW d \in Destinations
               PROVE  /\ \A p \in DOMAIN entries :
                           SentPast(entries[p].rules, d) => SentPast(AnswerRules, d)
                      /\ \A i \in DOMAIN entries[1].rules :
                           FirstMatch(entries[1].rules, d, i) /\ entries[1].rules[i].target \in Past =>
                             \E j \in DOMAIN rules : FirstMatch(rules, d, j) /\ rules[j] = entries[1].rules[i]
    BY DEF NeverProxiedMore
  <2>1. /\ MergeTypeOK /\ rules \in Seq(Rule) /\ profile = Len(entries) + 1
        /\ DOMAIN entries = 1..Len(entries) /\ Len(entries) \in Nat /\ Len(entries) > 0
    BY DEF MergeInv, MergeTypeOK, InPlace
  <2>2. \A p \in DOMAIN entries : 1..RulesDone(p) = DOMAIN entries[p].rules
    BY <2>1, EntryFacts DEF RulesDone
  <2>3. ASSUME NEW p \in DOMAIN entries, SentPast(entries[p].rules, d)
        PROVE  SentPast(AnswerRules, d)
    <3>1. PICK i \in DOMAIN entries[p].rules :
            FirstMatch(entries[p].rules, d, i) /\ entries[p].rules[i].target \in Past
      BY <2>3 DEF SentPast
    <3>2. Known(entries[p].rules[i]) /\ d \in entries[p].rules[i].match
      BY <2>2, <3>1 DEF MergeInv, RulesKept, KeepRule, FirstMatch
    <3>3. \E j \in DOMAIN rules : d \in rules[j].match
      BY <3>2 DEF Known
    <3>4. PICK j \in DOMAIN rules : FirstMatch(rules, d, j)
      BY <3>3 DEF MergeInv, SomeIsFirst
    <3>5. rules[j].target \in Past
      BY <3>4 DEF MergeInv, RulesKept, KeepRule
    <3>6. /\ Len(rules) \in Nat /\ DOMAIN rules = 1..Len(rules)
          /\ DOMAIN AnswerRules = 1..(Len(rules) + 1)
          /\ \A k \in DOMAIN rules : AnswerRules[k] = rules[k]
      BY <2>1 DEF AnswerRules
    <3> QED
      BY <3>4, <3>5, <3>6 DEF SentPast, FirstMatch
  <2>4. \A i \in DOMAIN entries[1].rules :
          FirstMatch(entries[1].rules, d, i) /\ entries[1].rules[i].target \in Past =>
            \E j \in DOMAIN rules : FirstMatch(rules, d, j) /\ rules[j] = entries[1].rules[i]
    <3>1. 1..RulesDone(1) = DOMAIN entries[1].rules
      BY <2>1, <2>2
    <3> QED
      BY <3>1 DEF MergeInv, FirstProfileFirst
  <2> QED
    BY <2>3, <2>4
<1> QED
  BY <1>1, MergeInvariance, PTL

-----------------------------------------------------------------------------
(* A call for either core.                                                 *)

\* A call for one core is a call of its build, and leaves the other's alone.
THEOREM BuildIsBoth == BuildSpec => Spec /\ MergeSpec
<1>1. BuildInit => Init /\ MergeInit
  BY DEF BuildInit
<1>2. [BuildNext]_<<core, vars, mihomoVars>> => [Next]_vars /\ [MergeNext]_mihomoVars
  BY DEF BuildNext
<1> QED  BY <1>1, <1>2, PTL DEF BuildSpec, Spec, MergeSpec

\* In what a call for Mihomo merges a name means one proxy, whichever core the
\* call is for.
THEOREM NamesApartHolds == BuildSpec => []NamesApart
BY MergedNamesApart, BuildIsBoth, PTL

\* What a profile keeps off the proxies a call for Mihomo keeps off them.
THEOREM NeverProxiedMoreHolds == BuildSpec => []NeverProxiedMore
BY MergedNeverProxiedMore, BuildIsBoth, PTL
=============================================================================
