---------------------------- MODULE MihomoProfiles ----------------------------
(***************************************************************************)
(* What a Mihomo template is made of (internal/config/mihomo.go): entries, *)
(* and the names and rules of their profiles.                              *)
(*                                                                         *)
(* A profile's proxies are their names, with the numbers a repeated name   *)
(* gets in a merge; a rule is the destinations it matches and where it     *)
(* sends them.                                                             *)
(***************************************************************************)
EXTENDS Naturals, Sequences

CONSTANTS
  Names,           \* names of proxies, as profiles write them
  Unnamed,         \* a proxy without a name
  NoMap,           \* an item of the list of proxies that is no mapping
  Destinations,    \* what a client may connect to
  MihomoTemplates  \* the Mihomo templates an administrator may have saved

\* "name #2" is a name with a number; a profile may write one, too.
Numbered(name, n) == [name EXCEPT !.numbers = Append(@, n)]

\* The targets keepMergedMihomoRule knows.  Any other is a "proxy" here: a group,
\* and also REJECT-DROP or PASS, whose rules the merge drops.
Past == {"DIRECT", "REJECT"}
Rule == [match : SUBSET Destinations, target : Past \union {"proxy"}, option : BOOLEAN]

\* An entry of the template: text that is no YAML, YAML that is no standalone
\* profile, or one.
Entry == [kind : {"broken", "other", "profile"},
          proxies : Seq(Names \union {Unnamed, NoMap}), rules : Seq(Rule)]

ASSUME MergeAssumption ==
  /\ \A name \in Names : name.numbers \in Seq(Nat)
  /\ \A name \in Names : name = [base |-> name.base, numbers |-> name.numbers]
  /\ Unnamed \notin Names /\ NoMap \notin Names
  /\ \A t \in MihomoTemplates : t \in Seq(Entry)
=============================================================================
