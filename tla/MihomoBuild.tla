----------------------------- MODULE MihomoBuild -----------------------------
(***************************************************************************)
(* Building one user's Mihomo config: BuildMihomo and the merge of         *)
(* standalone profiles into one (internal/config/mihomo.go).               *)
(*                                                                         *)
(* The user's placeholders, the DNS servers and all else that is taken     *)
(* from the first profile as it is are left out.                           *)
(***************************************************************************)
EXTENDS MihomoProfiles

VARIABLES
  entries,     \* the template: the entries of one call
  step,        \* where the call is, or how it ended
  profile,     \* the profile being read
  item,        \* how many of its proxies or rules were read
  nameCounts,  \* name -> how often it was met
  proxies,     \* the proxies of the answer: a name as written, and which of its kind
  rules        \* preservedRules

mihomoVars == <<entries, step, profile, item, nameCounts, proxies, rules>>

MergeInit ==
  /\ entries \in MihomoTemplates
  /\ step = "parse"
  /\ profile = 1 /\ item = 0
  /\ nameCounts = [name \in Names |-> 0]
  /\ proxies = <<>> /\ rules = <<>>

Ends(outcome) == step' = outcome /\ UNCHANGED <<entries, profile, item, nameCounts, proxies, rules>>

-----------------------------------------------------------------------------
(* BuildMihomo, and the conditions of the merge. *)

\* No entries, or one that can not be read: the call fails.
Unreadable == entries = <<>> \/ \E i \in DOMAIN entries : entries[i].kind = "broken"

ParseFails == step = "parse" /\ Unreadable /\ Ends("failed")

\* One profile is answered as it is written.
ParseOne == step = "parse" /\ ~Unreadable /\ Len(entries) = 1 /\ Ends("joined")

Parse == step = "parse" /\ ~Unreadable /\ Len(entries) > 1 /\ Ends("proxies")

Reading(what) == step = what /\ profile <= Len(entries)
Current == entries[profile]

\* Entries that are not all standalone profiles are answered as they are
\* written, one after another.
NotStandalone ==
  /\ Reading("proxies") /\ item = 0
  /\ Current.kind = "other" \/ Current.proxies = <<>>
  /\ Ends("joined")

-----------------------------------------------------------------------------
(* The proxies of one profile. *)

Read(sequence) == IF item < Len(sequence) THEN {sequence[item + 1]} ELSE {}

\* Mutation of Counted: a name is only seen or not seen.
Counted_Once(n) == 1

Counted(n) == n + 1

TakeProxy ==
  /\ Reading("proxies") /\ Current.kind = "profile"
  /\ \E name \in Read(Current.proxies) \intersect Names :
       /\ proxies' = Append(proxies, [name |-> name, nth |-> nameCounts[name] + 1])
       /\ nameCounts' = [nameCounts EXCEPT ![name] = Counted(@)]
  /\ item' = item + 1
  /\ UNCHANGED <<entries, step, profile, rules>>

SkipProxy ==
  /\ Reading("proxies") /\ Current.kind = "profile"
  /\ NoMap \in Read(Current.proxies)
  /\ item' = item + 1
  /\ UNCHANGED <<entries, step, profile, nameCounts, proxies, rules>>

\* A proxy without a name: nothing is merged.
UnnamedProxy ==
  /\ Reading("proxies") /\ Current.kind = "profile"
  /\ Unnamed \in Read(Current.proxies)
  /\ Ends("joined")

\* A value that JSON can not hold, as .nan: the call fails.
CloneFails ==
  /\ Reading("proxies") /\ Current.kind = "profile"
  /\ Read(Current.proxies) \ {NoMap} # {}
  /\ Ends("failed")

ProxiesRead ==
  /\ Reading("proxies") /\ Current.kind = "profile"
  /\ item > 0 /\ Read(Current.proxies) = {}
  /\ step' = "rules" /\ item' = 0
  /\ UNCHANGED <<entries, profile, nameCounts, proxies, rules>>

-----------------------------------------------------------------------------
(* Its rules, and the answer. *)

\* Mutation of KeepRule: a rule with an option behind its target is not recognised.
KeepRule_Suffix(rule) == rule.target \in Past /\ ~rule.option

\* keepMergedMihomoRule: rules that need no proxy.
KeepRule(rule) == rule.target \in Past

Known(rule) == \E i \in DOMAIN rules : rules[i] = rule

TakeRule ==
  /\ Reading("rules")
  /\ \E rule \in Read(Current.rules) :
       rules' = IF KeepRule(rule) /\ ~Known(rule) THEN Append(rules, rule) ELSE rules
  /\ item' = item + 1
  /\ UNCHANGED <<entries, step, profile, nameCounts, proxies>>

RulesRead ==
  /\ Reading("rules") /\ Read(Current.rules) = {}
  /\ step' = "proxies" /\ profile' = profile + 1 /\ item' = 0
  /\ UNCHANGED <<entries, nameCounts, proxies, rules>>

\* Only lists without a single mapping leave nothing to merge.
Merge ==
  /\ step = "proxies" /\ profile > Len(entries)
  /\ Ends(IF proxies = <<>> THEN "joined" ELSE "merged")

\* The first profile holds such a value somewhere else.
MergeFails == step = "proxies" /\ profile > Len(entries) /\ proxies # <<>> /\ Ends("failed")

MergeNext ==
  \/ ParseFails \/ ParseOne \/ Parse
  \/ NotStandalone \/ TakeProxy \/ SkipProxy \/ UnnamedProxy \/ CloneFails \/ ProxiesRead
  \/ TakeRule \/ RulesRead \/ Merge \/ MergeFails

MergeSpec == MergeInit /\ [][MergeNext]_mihomoVars

\* What the user gets: names, and rules with MATCH,PROXY behind them.
AnswerName(proxy) == IF proxy.nth = 1 THEN proxy.name ELSE Numbered(proxy.name, proxy.nth)
MatchProxy == [match |-> Destinations, target |-> "proxy", option |-> FALSE]
AnswerRules == Append(rules, MatchProxy)

-----------------------------------------------------------------------------
(* Properties *)

\* The target of the first rule of a list that matches a destination.
FirstMatch(list, d, i) == d \in list[i].match /\ \A j \in 1..(i - 1) : d \notin list[j].match
SentPast(list, d) == \E i \in DOMAIN list : FirstMatch(list, d, i) /\ list[i].target \in Past

\* Every variable has its type.
MergeTypeOK ==
  /\ entries \in Seq(Entry)
  /\ step \in {"parse", "proxies", "rules", "failed", "joined", "merged"}
  /\ profile \in 1..(Len(entries) + 1) /\ item \in Nat
  /\ nameCounts \in [Names -> Nat]
  /\ proxies \in Seq([name : Names, nth : Nat \ {0}])
  /\ rules \in Seq(Rule)

\* A rule or a user's choice means one proxy: two proxies of the answer have the
\* same name only if a profile writes a name that looks like a numbered one
\* (mihomo.go:177-180), whatever profiles they come from.
NamesApart ==
  step = "merged" =>
    \A i, j \in DOMAIN proxies :
      i # j /\ AnswerName(proxies[i]) = AnswerName(proxies[j]) =>
        \E k, l \in DOMAIN proxies : \E n \in 2..nameCounts[proxies[l].name] :
          proxies[k].name = Numbered(proxies[l].name, n)

\* What one of the profiles alone connects directly or rejects never goes through
\* a proxy in the merge of them all, although rules are dropped, doubled ones
\* left out and MATCH,PROXY put behind them; and what the first profile decides
\* so, the merge decides as it does ("DIRECT / REJECT rules are kept",
\* README.md:69).
NeverProxiedMore ==
  step = "merged" => \A d \in Destinations :
    /\ \A p \in DOMAIN entries : SentPast(entries[p].rules, d) => SentPast(AnswerRules, d)
    /\ \A i \in DOMAIN entries[1].rules :
         FirstMatch(entries[1].rules, d, i) /\ entries[1].rules[i].target \in Past =>
           \E j \in DOMAIN rules : FirstMatch(rules, d, j) /\ rules[j] = entries[1].rules[i]

-----------------------------------------------------------------------------
(* What holds between the steps. *)

\* How many rules of profile p were read.
RulesDone(p) ==
  IF p < profile THEN Len(entries[p].rules) ELSE IF p = profile /\ step = "rules" THEN item ELSE 0

\* Where the call is in the lists.
InPlace ==
  /\ step = "rules" => profile <= Len(entries) /\ item <= Len(entries[profile].rules)
  /\ step = "parse" => profile = 1
  /\ step = "merged" => profile = Len(entries) + 1 /\ Len(entries) > 0
  /\ step \in {"proxies", "rules"} => Len(entries) > 0

\* No name has the same number twice.
ProxiesCounted ==
  /\ \A k \in DOMAIN proxies : proxies[k].nth <= nameCounts[proxies[k].name]
  /\ \A k, l \in DOMAIN proxies : proxies[k] = proxies[l] => k = l

\* Of the rules read so far those that need no proxy are kept, and no others.
RulesKept ==
  /\ \A j \in DOMAIN rules : KeepRule(rules[j])
  /\ \A p \in DOMAIN entries : \A i \in 1..RulesDone(p) :
       KeepRule(entries[p].rules[i]) => Known(entries[p].rules[i])

\* Where rules match, one of them is the first.
SomeIsFirst ==
  \A d \in Destinations :
    (\E j \in DOMAIN rules : d \in rules[j].match) => \E j \in DOMAIN rules : FirstMatch(rules, d, j)

\* The rules begin with those of the first profile, in its order.
FirstProfileFirst ==
  /\ profile = 1 => \A j \in DOMAIN rules : \E i \in 1..RulesDone(1) : rules[j] = entries[1].rules[i]
  /\ \A d \in Destinations : \A i \in 1..RulesDone(1) :
       FirstMatch(entries[1].rules, d, i) /\ entries[1].rules[i].target \in Past =>
         \E j \in DOMAIN rules : FirstMatch(rules, d, j) /\ rules[j] = entries[1].rules[i]

\* The inductive invariant.
MergeInv ==
  MergeTypeOK /\ InPlace /\ ProxiesCounted /\ RulesKept /\ SomeIsFirst /\ FirstProfileFirst
=============================================================================
