------------------------------ MODULE XrayBuild ------------------------------
(***************************************************************************)
(* Building one user's Xray config from a template: Builder.Build with the *)
(* directives of the template's "subserver" block (internal/config).       *)
(*                                                                         *)
(* Of each randomize group one outbound stays and takes the tag of the     *)
(* group; the vless outbounds that stay get the user's id, unless the skip *)
(* directive names their tag.  Go iterates maps in any order and the choice*)
(* is random, so one template has many answers.                            *)
(*                                                                         *)
(* Outbounds are a function of their positions, so to drop some restricts  *)
(* its domain; a tag stands for its trimmed spelling.  Keys of the         *)
(* randomize map keep theirs, as keys that differ only in spaces are       *)
(* different keys of one group.                                            *)
(***************************************************************************)
EXTENDS FiniteSets, Sequences, Naturals

CONSTANTS
  Tags,         \* trimmed tags of outbounds and names of groups
  NoTag,        \* an outbound has no tag, or only spaces
  Spellings,    \* ways to write one key of the randomize map
  Positions,    \* places in the list of outbounds
  Squads,       \* squads of the panel
  Libraries,    \* the sets of Xray templates an administrator may have saved
  MaxSquads,    \* bound: squads of one user
  NoTemplate    \* null in the place of a template

Outbound == [tag : Tags \union {NoTag}, vless : BOOLEAN, id : {"template", "user"}]
Key == [tag : Tags, spelling : Spellings]
IsPartial(f, S, T) == DOMAIN f \subseteq S /\ f \in [DOMAIN f -> T]

IsTemplate(t) ==
  /\ IsPartial(t.outbounds, Positions, Outbound)
  /\ \A i \in DOMAIN t.outbounds : t.outbounds[i].id = "template"
  /\ t.skip \subseteq Tags
  /\ IsPartial(t.randomize, Key, SUBSET Tags)

IsLibrary(lib) ==
  /\ IsTemplate(lib.default) /\ DOMAIN lib.squads \subseteq Squads
  /\ \A s \in DOMAIN lib.squads : lib.squads[s] # NoTemplate => IsTemplate(lib.squads[s])

ASSUME BuildAssumption ==
  /\ NoTag \notin Tags /\ MaxSquads \in Nat
  /\ \A lib \in Libraries : IsLibrary(lib)

VARIABLES
  library,      \* the templates of the call, as getTemplateSet found them
  squads,       \* the user's active squads, in the panel's order
  template,     \* the template that was chosen
  cfg,          \* the outbounds of its clone, which the steps change
  groups,       \* randomizeGroups: group -> candidates
  selected,     \* group -> the candidate that stays
  at            \* the next step of the call

vars == <<library, squads, template, cfg, groups, selected, at>>

Empty == [x \in {} |-> {}]

Init ==
  /\ library \in Libraries
  /\ squads \in UNION {[1..n -> Squads] : n \in 0..MaxSquads}
  /\ template = NoTemplate
  /\ cfg = Empty /\ groups = Empty /\ selected = Empty
  /\ at = "select"

-----------------------------------------------------------------------------
(* The choice of the template. *)

SelectTemplate ==
  IF Len(squads) > 0 /\ squads[1] \in DOMAIN library.squads
  THEN library.squads[squads[1]]
  ELSE library.default

Select ==
  /\ at = "select"
  /\ template' = SelectTemplate
  /\ IF template' = NoTemplate
       THEN cfg' = cfg /\ at' = "failed"
       ELSE cfg' = template'.outbounds /\ at' = "parse"
  /\ UNCHANGED <<library, squads, groups, selected>>

-----------------------------------------------------------------------------
(* The randomize groups of the template that can be used. *)

AvailableTags == {cfg[i].tag : i \in DOMAIN cfg} \ {NoTag}
Filtered(key) == template.randomize[key] \intersect AvailableTags
Several(S) == \E a, b \in S : a # b

\* Mutation of Usable: a single candidate is enough.
Usable_Single(key) ==
  /\ Filtered(key) # {}
  /\ key.tag \in AvailableTags => key.tag \in Filtered(key)

\* Mutation of Usable: a group may have the tag of an outbound outside of it.
Usable_AnyName(key) == Several(Filtered(key))

\* A group needs two candidates that exist, and may not take the tag of an
\* outbound outside of it.
Usable(key) ==
  /\ Several(Filtered(key))
  /\ key.tag \in AvailableTags => key.tag \in Filtered(key)

UsableKeys == {key \in DOMAIN template.randomize : Usable(key)}

\* Of keys that are the same but for spaces the one that is read last stays,
\* which may be any.
Sanitized == {keyOf \in [{key.tag : key \in UsableKeys} -> UsableKeys] :
                \A g \in DOMAIN keyOf : keyOf[g].tag = g}

\* Mutation of Overlaps: groups may share candidates.
Overlaps_Never(tag) == FALSE

\* A candidate of two usable keys, also if one of them was replaced.
Overlaps(tag) == \E k, j \in UsableKeys : k # j /\ tag \in Filtered(k) \intersect Filtered(j)

GroupsOf(keyOf) ==
  [g \in {g \in DOMAIN keyOf : \A tag \in Filtered(keyOf[g]) : ~Overlaps(tag)}
     |-> Filtered(keyOf[g])]

ParseRandomizeGroups ==
  /\ at = "parse"
  /\ \E keyOf \in Sanitized : groups' = GroupsOf(keyOf)
  /\ at' = "pick"
  /\ UNCHANGED <<library, squads, template, cfg, selected>>

-----------------------------------------------------------------------------
(* One outbound of each group stays. *)

Candidates(gs) == UNION {gs[g] : g \in DOMAIN gs}
Chosen(pick) == {pick[g] : g \in DOMAIN pick}

SelectTargets ==
  /\ at = "pick"
  /\ \E pick \in [DOMAIN groups -> Candidates(groups)] :
       /\ \A g \in DOMAIN groups : pick[g] \in groups[g]
       /\ selected' = pick
  /\ at' = "trim"
  /\ UNCHANGED <<library, squads, template, cfg, groups>>

\* The source of random numbers fails; the call returns an error.
SelectTargetsFails ==
  /\ at = "pick" /\ DOMAIN groups # {}
  /\ at' = "failed"
  /\ UNCHANGED <<library, squads, template, cfg, groups, selected>>

Stays(tag, gs, pick) == tag \in Candidates(gs) => tag \in Chosen(pick)

TrimRandomized ==
  /\ at = "trim"
  /\ cfg' = [i \in {i \in DOMAIN cfg : Stays(cfg[i].tag, groups, selected)} |-> cfg[i]]
  /\ at' = "rename"
  /\ UNCHANGED <<library, squads, template, groups, selected>>

Renamed(tag, pick) ==
  IF tag \in Chosen(pick) THEN CHOOSE g \in DOMAIN pick : pick[g] = tag ELSE tag

RenameSelected ==
  /\ at = "rename"
  /\ cfg' = [i \in DOMAIN cfg |-> [cfg[i] EXCEPT !.tag = Renamed(cfg[i].tag, selected)]]
  /\ at' = "personalize"
  /\ UNCHANGED <<library, squads, template, groups, selected>>

-----------------------------------------------------------------------------
(* The outbounds that stay become the user's. *)

\* Mutation of SkipOutbound: no outbound is skipped.
SkipOutbound_Never(outbound) == FALSE

SkipOutbound(outbound) == outbound.tag \in template.skip

Personalized(outbound) ==
  IF outbound.vless /\ ~SkipOutbound(outbound)
  THEN [outbound EXCEPT !.id = "user"]
  ELSE outbound

Personalize ==
  /\ at = "personalize"
  /\ cfg' = [i \in DOMAIN cfg |-> Personalized(cfg[i])]
  /\ at' = "done"
  /\ UNCHANGED <<library, squads, template, groups, selected>>

Next ==
  \/ Select
  \/ ParseRandomizeGroups
  \/ SelectTargets \/ SelectTargetsFails
  \/ TrimRandomized \/ RenameSelected
  \/ Personalize

Spec == Init /\ [][Next]_vars

-----------------------------------------------------------------------------
(* Properties *)

Steps == {"select", "parse", "pick", "trim", "rename", "personalize", "done", "failed"}

\* The tag an outbound had in the template.
Was(i) == template.outbounds[i].tag

Distinct(outbounds) ==
  \A i, j \in DOMAIN outbounds :
    i # j /\ outbounds[i].tag # NoTag => outbounds[i].tag # outbounds[j].tag

\* Types of the variables: every group in use has several candidates, and its
\* choice is one of them.
TypeOK ==
  /\ IsLibrary(library) /\ at \in Steps
  /\ template # NoTemplate => IsTemplate(template)
  /\ IsPartial(cfg, Positions, Outbound)
  /\ IsPartial(groups, Tags, SUBSET Tags)
  /\ IsPartial(selected, Tags, Tags)
  /\ \A g \in DOMAIN groups : Several(groups[g])
  /\ \A g \in DOMAIN selected : g \in DOMAIN groups /\ selected[g] \in groups[g]

\* Of each group the chosen outbound stays, under the name of the group, and no
\* other candidate does: what README.md:223-228 and the steps in
\* examples/subserver_randomize_steps.md promise of applyRandomizeGroups, for
\* any groups that are used together.
GroupsKept ==
  at = "done" => \A g \in DOMAIN groups :
    /\ \E i \in DOMAIN cfg : cfg[i].tag = g
    /\ \A i \in DOMAIN cfg : Was(i) \in groups[g] => Was(i) = selected[g] /\ cfg[i].tag = g

\* Renaming never gives two outbounds one tag: a client gets distinct tags if the
\* template's are.  It needs the rule for a group named like an outbound and the
\* rule for shared candidates at once (builder.go:232, 247-259).
TagsStayUnique ==
  at = "done" /\ Distinct(template.outbounds) => Distinct(cfg)

\* Outbounds that are no candidate of a group in use stay, with their tags, for
\* the routing rules that name them (builder.go:395-401); candidates of groups
\* that are ignored stay too.
RestStays ==
  at = "done" => \A i \in DOMAIN template.outbounds :
    Was(i) \notin Candidates(groups) => i \in DOMAIN cfg /\ cfg[i].tag = Was(i)

\* The user's id is in every vless outbound of the answer but those whose tag the
\* template skips, and nowhere else (builder.go:66-96), whatever the steps before
\* dropped and renamed.  The tag is that of the answer: a chosen candidate is
\* skipped under the name of its group (builder_test.go:343, 436-445).
PersonalIds ==
  at = "done" => \A i \in DOMAIN cfg :
    cfg[i].id = "user" <=> template.outbounds[i].vless /\ cfg[i].tag \notin template.skip

-----------------------------------------------------------------------------
(* What holds between the steps. *)

\* Groups in use have candidates in the template, none in common, and a group named
\* like an outbound has that outbound for a candidate.
GoodGroups(gs, outbounds) ==
  /\ \A g \in DOMAIN gs : \A tag \in gs[g] :
       tag # NoTag /\ \E i \in DOMAIN outbounds : outbounds[i].tag = tag
  /\ \A g, j \in DOMAIN gs : g # j => gs[g] \intersect gs[j] = {}
  /\ \A g \in DOMAIN gs : \A i \in DOMAIN outbounds : outbounds[i].tag = g => g \in gs[g]

\* The outbounds of the answer when some were dropped, and when they were renamed.
Trimmed(c, outbounds, gs, pick) ==
  /\ DOMAIN c = {i \in DOMAIN outbounds : Stays(outbounds[i].tag, gs, pick)}
  /\ \A i \in DOMAIN c : c[i].vless = outbounds[i].vless
Named(c, outbounds, pick) == \A i \in DOMAIN c : c[i].tag = Renamed(outbounds[i].tag, pick)

\* Where the call is, and what it has done by then.
Progress ==
  /\ at = "select" => cfg = Empty /\ groups = Empty
  /\ at \in {"select", "parse", "pick"} => selected = Empty
  /\ at \in {"parse", "pick", "trim", "rename", "personalize", "done"} => template # NoTemplate
  /\ at = "parse" => groups = Empty
  /\ at \in {"parse", "pick", "trim"} => cfg = template.outbounds
  /\ at \in {"pick", "trim", "rename", "personalize", "done"} => GoodGroups(groups, template.outbounds)
  /\ at \in {"trim", "rename", "personalize", "done"} => DOMAIN selected = DOMAIN groups
  /\ at \in {"rename", "personalize", "done"} => Trimmed(cfg, template.outbounds, groups, selected)
  /\ at = "rename" => \A i \in DOMAIN cfg : cfg[i].tag = Was(i)
  /\ at \in {"rename", "personalize"} => \A i \in DOMAIN cfg : cfg[i].id = "template"
  /\ at \in {"personalize", "done"} => Named(cfg, template.outbounds, selected)

\* The inductive invariant: types, progress, and the ids of an answer.
IndInv == TypeOK /\ Progress /\ PersonalIds
=============================================================================
