------------------------- MODULE AdminStateProofs ---------------------------
(***************************************************************************)
(* Proofs about AdminState, for every number of POSTs, faults and values,  *)
(* and whether or not failed writes may have been committed.               *)
(***************************************************************************)
EXTENDS AdminState, TLAPS

\* A value of a setting is never mistaken for a missing row.
LEMMA ValuesAreRows ==
  /\ \A s \in Stores : None \notin Values(s)
  /\ Values("templates") = Libraries /\ Values("headers") = HeaderSets
  /\ NoOverrides \in HeaderSets /\ NoOverrides.mihomo = Empty
BY AdminAssumption, NoneAssumption DEF Stores, Values, NoOverrides, HeaderSets, PerCore

\* Completing a set of overrides gives a set of overrides.
LEMMA CompletedType ==
  ASSUME NEW set \in HeaderSets
  PROVE  Completed(set) \in HeaderSets
BY DEF Completed, HeaderSets

\* Databases grow by whole writes: what a commit does to the rows and the log.
LEMMA CommitEffect ==
  ASSUME TypeOK, RowsAreLogged,
         NEW s \in Stores, NEW v \in Values(s), NEW who \in Requests \union {Boot},
         Commit(s, v, who)
  PROVE  /\ DOMAIN disk' = Stores /\ DOMAIN commits' = Stores
         /\ disk'[s] = v /\ v # None
         /\ Len(commits'[s]) = Len(commits[s]) + 1
         /\ commits'[s][Len(commits'[s])] = [by |-> who, value |-> v]
         /\ \A t \in Stores :
              /\ disk'[t] \in Values(t) \union {None}
              /\ commits'[t] \in Seq([by : Requests \union {Boot}, value : Values(t)])
              /\ t # s => disk'[t] = disk[t] /\ commits'[t] = commits[t]
              /\ Len(commits'[t]) >= Len(commits[t])
              /\ \A i \in 1..Len(commits[t]) : commits'[t][i] = commits[t][i]
         /\ RowsAreLogged'
<1> DEFINE old == commits[s]
           new == [by |-> who, value |-> v]
           Write(t) == [by : Requests \union {Boot}, value : Values(t)]
<1>1. old \in Seq(Write(s)) /\ new \in Write(s)
  BY DEF TypeOK
<1>2. /\ commits'[s] = Append(old, new) /\ DOMAIN commits' = Stores
      /\ \A t \in Stores : t # s => commits'[t] = commits[t]
  BY DEF Commit, TypeOK
<1>3. /\ disk'[s] = v /\ DOMAIN disk' = Stores
      /\ \A t \in Stores : t # s => disk'[t] = disk[t]
  BY DEF Commit, TypeOK
<1>4. \A t \in Stores : commits[t] \in Seq(Write(t)) /\ disk[t] \in Values(t) \union {None}
  BY DEF TypeOK
<1> HIDE DEF old, new
<1>5. /\ Append(old, new) \in Seq(Write(s))
      /\ Len(Append(old, new)) = Len(old) + 1
      /\ Append(old, new)[Len(old) + 1] = new
      /\ \A i \in 1..Len(old) : Append(old, new)[i] = old[i]
      /\ Len(old) \in Nat
  BY <1>1
<1>6. v # None
  BY ValuesAreRows
<1>7. new.value = v
  BY DEF new
<1>8. RowsAreLogged'
  <2> SUFFICES ASSUME NEW t \in Stores
               PROVE  IF disk'[t] = None THEN commits'[t] = <<>>
                      ELSE /\ Len(commits'[t]) > 0
                           /\ disk'[t] = commits'[t][Len(commits'[t])].value
    BY DEF RowsAreLogged
  <2>1. CASE t = s
    BY <1>2, <1>3, <1>5, <1>6, <1>7, <2>1
  <2>2. CASE t # s
    BY <1>2, <1>3, <2>2 DEF RowsAreLogged
  <2> QED  BY <2>1, <2>2
<1>9. \A t \in Stores : Len(commits[t]) \in Nat
  BY <1>4
<1>10. \A t \in Stores : t # s =>
         /\ Len(commits'[t]) >= Len(commits[t])
         /\ \A i \in 1..Len(commits[t]) : commits'[t][i] = commits[t][i]
  BY <1>2, <1>9
<1>11. /\ Len(commits'[s]) = Len(commits[s]) + 1
       /\ commits'[s][Len(commits'[s])] = new
       /\ commits'[s] \in Seq(Write(s))
       /\ \A i \in 1..Len(commits[s]) : commits'[s][i] = commits[s][i]
       /\ Len(commits'[s]) >= Len(commits[s])
  BY <1>2, <1>5 DEF old
<1>12. ASSUME NEW t \in Stores
       PROVE  /\ disk'[t] \in Values(t) \union {None}
              /\ commits'[t] \in Seq(Write(t))
              /\ t # s => disk'[t] = disk[t] /\ commits'[t] = commits[t]
              /\ Len(commits'[t]) >= Len(commits[t])
              /\ \A i \in 1..Len(commits[t]) : commits'[t][i] = commits[t][i]
  <2>1. CASE t = s
    BY <1>3, <1>11, <2>1
  <2>2. CASE t # s
    BY <1>2, <1>3, <1>4, <1>10, <2>2
  <2> QED  BY <2>1, <2>2
<1> QED  BY <1>2, <1>3, <1>6, <1>8, <1>11, <1>12 DEF new, Write

-----------------------------------------------------------------------------
(* The database under any step: it is left alone, or a row is written.      *)

DbOK ==
  /\ DOMAIN disk = Stores /\ DOMAIN commits = Stores
  /\ \A s \in Stores :
       /\ disk[s] \in Values(s) \union {None}
       /\ commits[s] \in Seq([by : Requests \union {Boot}, value : Values(s)])
  /\ RowsAreLogged

LogGrows ==
  \A t \in Stores :
    /\ Len(commits'[t]) \in Nat /\ Len(commits[t]) \in Nat
    /\ Len(commits'[t]) >= Len(commits[t])
    /\ \A i \in 1..Len(commits[t]) : commits'[t][i] = commits[t][i]

LEMMA NoWriteKeepsDb ==
  ASSUME TypeOK, RowsAreLogged, NoWrite
  PROVE  DbOK' /\ LogGrows
<1>1. /\ disk' = disk /\ commits' = commits
      /\ \A t \in Stores : commits[t] \in Seq([by : Requests \union {Boot}, value : Values(t)])
  BY DEF NoWrite, TypeOK
<1>2. \A t \in Stores : Len(commits[t]) \in Nat
  BY <1>1
<1>3. LogGrows
  BY <1>1, <1>2 DEF LogGrows
<1>4. DbOK'
  BY <1>1 DEF TypeOK, RowsAreLogged, DbOK
<1> QED  BY <1>3, <1>4

LEMMA CommitKeepsDb ==
  ASSUME TypeOK, RowsAreLogged,
         NEW s \in Stores, NEW v \in Values(s), NEW who \in Requests \union {Boot},
         Commit(s, v, who)
  PROVE  DbOK' /\ LogGrows
<1>0. /\ \A t \in Stores :
           /\ commits'[t] \in Seq([by : Requests \union {Boot}, value : Values(t)])
           /\ Len(commits'[t]) >= Len(commits[t])
           /\ \A i \in 1..Len(commits[t]) : commits'[t][i] = commits[t][i]
      /\ \A t \in Stores : commits[t] \in Seq([by : Requests \union {Boot}, value : Values(t)])
  BY CommitEffect DEF TypeOK
<1>1. LogGrows
  <2> SUFFICES ASSUME NEW t \in Stores
               PROVE  Len(commits'[t]) \in Nat /\ Len(commits[t]) \in Nat
    BY <1>0 DEF LogGrows
  <2> QED  BY <1>0
<1>2. DbOK'
  BY CommitEffect DEF DbOK
<1> QED  BY <1>1, <1>2

LEMMA SaveFailsKeepsDb ==
  ASSUME TypeOK, RowsAreLogged,
         NEW s \in Stores, NEW v \in Values(s), NEW who \in Requests \union {Boot},
         SaveFails(s, v, who)
  PROVE  DbOK' /\ LogGrows /\ faults' \in 0..MaxFaults
BY NoWriteKeepsDb, CommitKeepsDb, AdminAssumption DEF SaveFails, NoWrite, Fault, TypeOK

LEMMA FaultType ==
  ASSUME TypeOK, Fault
  PROVE  faults' \in 0..MaxFaults
BY AdminAssumption DEF Fault, TypeOK

\* The file, the POSTs and their order do not change while main() starts.
LEMMA StartingTypes ==
  ASSUME IndInv, NEW step \in Steps \ {"serving"}, At(step),
         DbOK', LogGrows, faults' \in 0..MaxFaults, boot' \in Steps,
         DOMAIN served' = Stores,
         \A s \in Stores : served'[s] \in Values(s) \union {None},
         servedAt' \in [Stores -> Nat]
  PROVE  TypeOK' /\ RowsAreLogged' /\ PostsAreLogged'
<1>1. UNCHANGED <<file, post, before>> /\ boot # "serving"
  BY DEF At, Steps
<1>2. TypeOK'
  BY <1>1 DEF IndInv, TypeOK, DbOK
<1>3. PostsAreLogged'
  BY <1>1 DEF IndInv, PostsAreLogged
<1> QED  BY <1>2, <1>3 DEF DbOK

\* A copy whose write is in the log stays in the log.
LEMMA LoggedStays ==
  ASSUME TypeOK, LogGrows, NEW s \in Stores, IsLogged(s),
         served'[s] = served[s], servedAt'[s] = servedAt[s]
  PROVE  IsLogged(s)'
BY DEF IsLogged, LogGrows, TypeOK

-----------------------------------------------------------------------------
(* The steps of main().                                                     *)

\* What a step that neither writes a row nor fails leaves as it was.
LEMMA QuietStep ==
  ASSUME IndInv, NoWrite, UNCHANGED faults
  PROVE  DbOK' /\ LogGrows /\ faults' \in 0..MaxFaults
BY NoWriteKeepsDb DEF IndInv, TypeOK

LEMMA SavingStep ==
  ASSUME IndInv, NEW s \in Stores, NEW v \in Values(s), Save(s, v, Boot)
  PROVE  /\ DbOK' /\ LogGrows /\ faults' \in 0..MaxFaults
         /\ disk'[s] = v /\ v # None
         /\ Len(commits'[s]) \in Nat /\ Len(commits'[s]) \in 1..Len(commits'[s])
         /\ commits'[s][Len(commits'[s])].value = v
         /\ \A t \in Stores : t # s => disk'[t] = disk[t]
<1>1. TypeOK /\ RowsAreLogged /\ Commit(s, v, Boot) /\ faults' = faults
  BY DEF IndInv, Save
<1>2. DbOK' /\ LogGrows
  BY <1>1, CommitKeepsDb
<1> DEFINE who == Boot
<1>0. who \in Requests \union {Boot} /\ Commit(s, v, who)
  BY <1>1
<1> HIDE DEF who
<1>3. /\ disk'[s] = v /\ v # None
      /\ Len(commits'[s]) = Len(commits[s]) + 1
      /\ commits'[s][Len(commits'[s])] = [by |-> who, value |-> v]
      /\ \A t \in Stores : disk'[t] \in Values(t) \union {None} /\ (t # s => disk'[t] = disk[t])
  <2>1. disk'[s] = v /\ v # None
    BY <1>0, <1>1, CommitEffect
  <2>2. /\ Len(commits'[s]) = Len(commits[s]) + 1
        /\ commits'[s][Len(commits'[s])] = [by |-> who, value |-> v]
    BY <1>0, <1>1, CommitEffect
  <2>3. \A t \in Stores : disk'[t] \in Values(t) \union {None}
    BY <1>0, <1>1, CommitEffect
  <2>4. \A t \in Stores : t # s => disk'[t] = disk[t]
    BY <1>0 DEF Commit
  <2> QED  BY <2>1, <2>2, <2>3, <2>4
<1>4. Len(commits[s]) \in Nat
  BY <1>2 DEF LogGrows
<1>5. faults' \in 0..MaxFaults
  BY <1>1 DEF TypeOK
<1>6. Len(commits'[s]) \in Nat /\ Len(commits'[s]) \in 1..Len(commits'[s])
  BY <1>3, <1>4
<1>7. commits'[s][Len(commits'[s])].value = v
  BY <1>3
<1> QED  BY <1>2, <1>3, <1>5, <1>6, <1>7

\* A start that gives up leaves no copy behind.
LEMMA ExitKeepsInv ==
  ASSUME IndInv, NEW step \in Steps \ {"serving"}, At(step), Exit,
         DbOK', LogGrows, faults' \in 0..MaxFaults
  PROVE  IndInv'
<1>1. /\ boot' = "down" /\ served' = [s \in Stores |-> None]
      /\ servedAt' = [s \in Stores |-> 0]
  BY DEF Exit, Go
<1>2. TypeOK' /\ RowsAreLogged' /\ PostsAreLogged'
  BY <1>1, StartingTypes DEF Steps
<1>3. CopiesAreLogged'
  BY <1>1 DEF CopiesAreLogged, Stores
<1> QED  BY <1>2, <1>3 DEF IndInv

LEMMA StartKeepsInv ==
  ASSUME IndInv, Start
  PROVE  IndInv'
<1>1. DbOK' /\ LogGrows /\ faults' \in 0..MaxFaults
  BY QuietStep DEF Start
<1>2. TypeOK' /\ RowsAreLogged' /\ PostsAreLogged'
  BY <1>1, StartingTypes DEF Start, Steps, Go, KeepCopies, IndInv, TypeOK
<1>3. CopiesAreLogged'
  BY DEF IndInv, CopiesAreLogged, Start, At, Go, KeepCopies
<1> QED  BY <1>2, <1>3 DEF IndInv

LEMMA BootstrapConfigsKeepsInv ==
  ASSUME IndInv, BootstrapConfigs
  PROVE  IndInv'
<1>1. "templates" \in Stores /\ "templates" \in Steps \ {"serving"} /\ At("templates")
  BY DEF Stores, Steps, BootstrapConfigs
<1>2. file.templates \in Libraries \union {Bad}
  BY DEF IndInv, TypeOK
<1>3. CASE /\ disk["templates"] # None
           /\ Go("load") /\ NoWrite /\ KeepCopies /\ UNCHANGED faults
  <2>1. DbOK' /\ LogGrows /\ faults' \in 0..MaxFaults
    BY <1>3, QuietStep
  <2>2. TypeOK' /\ RowsAreLogged' /\ PostsAreLogged'
    BY <1>1, <1>3, <2>1, StartingTypes DEF Steps, Go, KeepCopies, IndInv, TypeOK
  <2>3. CopiesAreLogged'
    BY <1>1, <1>3 DEF IndInv, CopiesAreLogged, At, Go, KeepCopies, NoWrite
  <2> QED  BY <2>2, <2>3 DEF IndInv
<1>4. CASE /\ disk["templates"] = None /\ file.templates # Bad
           /\ Save("templates", file.templates, Boot)
           /\ Go("load") /\ KeepCopies
  <2>0. file.templates \in Values("templates")
    BY <1>2, <1>4, ValuesAreRows
  <2>1. /\ DbOK' /\ LogGrows /\ faults' \in 0..MaxFaults
        /\ disk'["templates"] # None
    BY <1>1, <1>4, <2>0, SavingStep
  <2>2. TypeOK' /\ RowsAreLogged' /\ PostsAreLogged'
    BY <1>1, <1>4, <2>1, StartingTypes DEF Steps, Go, KeepCopies, IndInv, TypeOK
  <2>3. CopiesAreLogged'
    BY <1>1, <1>4, <2>1 DEF IndInv, CopiesAreLogged, At, Go, KeepCopies
  <2> QED  BY <2>2, <2>3 DEF IndInv
<1>5. CASE Exit /\ NoWrite /\ UNCHANGED faults
  BY <1>1, <1>5, QuietStep, ExitKeepsInv
<1> QED  BY <1>3, <1>4, <1>5 DEF BootstrapConfigs

LEMMA BootstrapConfigsFailsKeepsInv ==
  ASSUME IndInv, BootstrapConfigsFails
  PROVE  IndInv'
<1>1. /\ "templates" \in Stores /\ "templates" \in Steps \ {"serving"}
      /\ At("templates") /\ Exit /\ TypeOK /\ RowsAreLogged
  BY DEF Stores, Steps, BootstrapConfigsFails, IndInv
<1>2. DbOK' /\ LogGrows /\ faults' \in 0..MaxFaults
  <2>1. CASE Fault /\ NoWrite
    BY <1>1, <2>1, NoWriteKeepsDb, FaultType
  <2>2. CASE file.templates # Bad /\ SaveFails("templates", file.templates, Boot)
    <3>1. file.templates \in Values("templates")
      BY <1>1, <2>2, ValuesAreRows DEF TypeOK
    <3> QED  BY <1>1, <2>2, <3>1, SaveFailsKeepsDb
  <2> QED  BY <2>1, <2>2 DEF BootstrapConfigsFails
<1> QED  BY <1>1, <1>2, ExitKeepsInv

LEMMA LoadTemplateSetKeepsInv ==
  ASSUME IndInv, LoadTemplateSet
  PROVE  IndInv'
<1>1. /\ "templates" \in Stores /\ "headers" \in Stores
      /\ "load" \in Steps \ {"serving"} /\ At("load") /\ Go("headers")
      /\ NoWrite /\ UNCHANGED faults /\ TypeOK
      /\ Serve("templates", disk["templates"], Len(commits["templates"]))
  BY DEF Stores, Steps, LoadTemplateSet, IndInv
<1>2. DbOK' /\ LogGrows /\ faults' \in 0..MaxFaults
  BY <1>1, QuietStep
<1>3. /\ Len(commits["templates"]) \in Nat
      /\ disk' = disk /\ commits' = commits
  BY <1>1, <1>2 DEF LogGrows, NoWrite
<1>4. /\ served'["templates"] = disk["templates"] /\ served'["headers"] = served["headers"]
      /\ servedAt'["templates"] = Len(commits["templates"])
      /\ DOMAIN served' = Stores /\ servedAt' \in [Stores -> Nat]
      /\ \A s \in Stores : served'[s] \in Values(s) \union {None}
  BY <1>1, <1>3 DEF Serve, TypeOK, Stores
<1>5. TypeOK' /\ RowsAreLogged' /\ PostsAreLogged'
  BY <1>1, <1>2, <1>4, StartingTypes DEF Go, Steps
<1>6. disk["templates"] # None
  BY <1>1 DEF IndInv, CopiesAreLogged, At
<1>7. /\ Len(commits["templates"]) > 0
      /\ disk["templates"] = commits["templates"][Len(commits["templates"])].value
  BY <1>1, <1>6 DEF IndInv, RowsAreLogged
<1>8. IsLogged("templates")'
  BY <1>3, <1>4, <1>7 DEF IsLogged
<1>9. served'["headers"] = None
  BY <1>1, <1>4 DEF IndInv, CopiesAreLogged, At
<1>10. CopiesAreLogged'
  BY <1>1, <1>3, <1>4, <1>8, <1>9 DEF CopiesAreLogged, Go
<1> QED  BY <1>5, <1>10 DEF IndInv

LEMMA LoadTemplateSetFailsKeepsInv ==
  ASSUME IndInv, LoadTemplateSetFails
  PROVE  IndInv'
BY NoWriteKeepsDb, FaultType, ExitKeepsInv DEF LoadTemplateSetFails, IndInv, Steps

\* The value the header store gets from its row.
Loaded == IF disk["headers"] = None THEN NoOverrides ELSE disk["headers"]

LEMMA LoadHeaderStoreKeepsInv ==
  ASSUME IndInv, LoadHeaderStore
  PROVE  IndInv'
<1>1. /\ "templates" \in Stores /\ "headers" \in Stores
      /\ "headers" \in Steps \ {"serving"} /\ At("headers") /\ Go("import")
      /\ NoWrite /\ UNCHANGED faults /\ TypeOK
      /\ Serve("headers", Loaded, Len(commits["headers"]))
  BY DEF Stores, Steps, LoadHeaderStore, IndInv, Loaded
<1>2. DbOK' /\ LogGrows /\ faults' \in 0..MaxFaults
  BY <1>1, QuietStep
<1>3. /\ Len(commits["headers"]) \in Nat
      /\ disk' = disk /\ commits' = commits
  BY <1>1, <1>2 DEF LogGrows, NoWrite
<1>4. Loaded \in HeaderSets
  BY <1>1, ValuesAreRows DEF Loaded, TypeOK
<1>5. /\ served'["headers"] = Loaded /\ served'["templates"] = served["templates"]
      /\ servedAt'["headers"] = Len(commits["headers"])
      /\ servedAt'["templates"] = servedAt["templates"]
      /\ DOMAIN served' = Stores /\ servedAt' \in [Stores -> Nat]
      /\ \A s \in Stores : served'[s] \in Values(s) \union {None}
  BY <1>1, <1>3, <1>4, ValuesAreRows DEF Serve, TypeOK, Stores
<1>6. TypeOK' /\ RowsAreLogged' /\ PostsAreLogged'
  BY <1>1, <1>2, <1>5, StartingTypes DEF Go, Steps
<1>7. IsLogged("templates") /\ served["templates"] = disk["templates"]
  BY <1>1 DEF IndInv, CopiesAreLogged, At
<1>8. IsLogged("templates")'
  BY <1>1, <1>2, <1>5, <1>7, LoggedStays
<1>9. /\ served'["headers"] = NoOverrides \/ IsLogged("headers")'
      /\ served'["headers"].mihomo # Empty => served'["headers"] = disk'["headers"]
  <2>1. CASE disk["headers"] = None
    BY <1>5, <2>1, ValuesAreRows DEF Loaded
  <2>2. CASE disk["headers"] # None
    <3>1. /\ Len(commits["headers"]) > 0
          /\ disk["headers"] = commits["headers"][Len(commits["headers"])].value
      BY <1>1, <2>2 DEF IndInv, RowsAreLogged
    <3> QED  BY <1>3, <1>5, <2>2, <3>1 DEF IsLogged, Loaded
  <2> QED  BY <2>1, <2>2
<1>11. CopiesAreLogged'
  BY <1>1, <1>3, <1>4, <1>5, <1>7, <1>8, <1>9 DEF CopiesAreLogged, Go
<1> QED  BY <1>6, <1>11 DEF IndInv

LEMMA LoadHeaderStoreFailsKeepsInv ==
  ASSUME IndInv, LoadHeaderStoreFails
  PROVE  IndInv'
<1>1. /\ "templates" \in Stores
      /\ "headers" \in Steps \ {"serving"} /\ At("headers") /\ Go("serving")
      /\ NoWrite /\ KeepCopies /\ TypeOK /\ RowsAreLogged
  BY DEF Stores, Steps, LoadHeaderStoreFails, IndInv
<1>2. DbOK' /\ LogGrows /\ faults' \in 0..MaxFaults
  BY <1>1, NoWriteKeepsDb, FaultType DEF LoadHeaderStoreFails
<1>3. TypeOK' /\ RowsAreLogged' /\ PostsAreLogged'
  BY <1>1, <1>2, StartingTypes DEF Go, Steps, KeepCopies, TypeOK
<1>4. IsLogged("templates") /\ served["headers"] = None
  BY <1>1 DEF IndInv, CopiesAreLogged, At
<1>5. IsLogged("templates")'
  BY <1>1, <1>2, <1>4, LoggedStays DEF KeepCopies
<1>6. CopiesAreLogged'
  BY <1>1, <1>4, <1>5 DEF CopiesAreLogged, Go, KeepCopies
<1> QED  BY <1>3, <1>6 DEF IndInv

\* SaveSet while main() starts: the copy is the row just written.
LEMMA SaveHeadersKeepsInv ==
  ASSUME IndInv, NEW step \in {"import", "ensure"}, At(step),
         NEW next \in {"ensure", "serving"}, Go(next),
         NEW v \in HeaderSets, SaveHeaders(v)
  PROVE  IndInv' /\ served'["headers"] = disk'["headers"]
<1>1. /\ "templates" \in Stores /\ "headers" \in Stores
      /\ step \in Steps \ {"serving"} /\ next \in Steps /\ TypeOK
      /\ v \in Values("headers") /\ Save("headers", v, Boot)
      /\ Serve("headers", v, Len(commits'["headers"]))
  BY ValuesAreRows DEF Stores, Steps, SaveHeaders, IndInv
<1>2. /\ DbOK' /\ LogGrows /\ faults' \in 0..MaxFaults
      /\ disk'["headers"] = v /\ disk'["templates"] = disk["templates"]
      /\ Len(commits'["headers"]) \in Nat
      /\ Len(commits'["headers"]) \in 1..Len(commits'["headers"])
      /\ commits'["headers"][Len(commits'["headers"])].value = v
  BY <1>1, SavingStep DEF Stores
<1>3. /\ served'["headers"] = v /\ served'["templates"] = served["templates"]
      /\ servedAt'["headers"] = Len(commits'["headers"])
      /\ servedAt'["templates"] = servedAt["templates"]
      /\ DOMAIN served' = Stores /\ servedAt' \in [Stores -> Nat]
      /\ \A s \in Stores : served'[s] \in Values(s) \union {None}
  BY <1>1, <1>2, ValuesAreRows DEF Serve, TypeOK, Stores
<1>4. TypeOK' /\ RowsAreLogged' /\ PostsAreLogged'
  BY <1>1, <1>2, <1>3, StartingTypes DEF Go
<1>5. IsLogged("headers")'
  BY <1>2, <1>3 DEF IsLogged
<1>6. IsLogged("templates") /\ served["templates"] = disk["templates"]
  BY DEF IndInv, CopiesAreLogged, At
<1>7. IsLogged("templates")'
  BY <1>1, <1>2, <1>3, <1>6, LoggedStays
<1>8. CopiesAreLogged'
  BY <1>2, <1>3, <1>5, <1>6, <1>7 DEF CopiesAreLogged, Go
<1> QED  BY <1>2, <1>3, <1>4, <1>8 DEF IndInv

\* A step of main() over the header store that changes no copy.
LEMMA KeptHeadersKeepInv ==
  ASSUME IndInv, NEW step \in {"import", "ensure"}, At(step),
         NEW next \in {"ensure", "serving"}, Go(next), KeepCopies,
         DbOK', LogGrows, faults' \in 0..MaxFaults,
         disk'["templates"] = disk["templates"],
         disk'["headers"] = disk["headers"] \/ served["headers"].mihomo = Empty,
         next = "serving" => served["headers"].mihomo # Empty
  PROVE  IndInv'
<1>1. /\ "templates" \in Stores /\ "headers" \in Stores
      /\ step \in Steps \ {"serving"} /\ next \in Steps /\ TypeOK
  BY DEF Stores, Steps, IndInv
<1>2. TypeOK' /\ RowsAreLogged' /\ PostsAreLogged'
  BY <1>1, StartingTypes DEF Go, KeepCopies, TypeOK
<1>3. /\ IsLogged("templates") /\ served["templates"] = disk["templates"]
      /\ served["headers"] \in HeaderSets
      /\ served["headers"] = NoOverrides \/ IsLogged("headers")
      /\ served["headers"].mihomo # Empty => served["headers"] = disk["headers"]
  BY DEF IndInv, CopiesAreLogged, At
<1>4. /\ IsLogged("templates")'
      /\ IsLogged("headers") => IsLogged("headers")'
  BY <1>1, <1>3, LoggedStays DEF KeepCopies
<1>5. served'["headers"] = NoOverrides \/ IsLogged("headers")'
  BY <1>3, <1>4 DEF KeepCopies
<1>6. next = "serving" => IsLogged("headers")'
  BY <1>3, <1>4, ValuesAreRows
<1>7. CopiesAreLogged'
  BY <1>3, <1>4, <1>5, <1>6 DEF CopiesAreLogged, Go, KeepCopies
<1> QED  BY <1>2, <1>7 DEF IndInv

LEMMA ImportedType ==
  ASSUME TypeOK, file.headers # Bad
  PROVE  Imported \in HeaderSets
BY ValuesAreRows DEF Imported, TypeOK

LEMMA BootstrapHeadersKeepsInv ==
  ASSUME IndInv, BootstrapHeaders
  PROVE  IndInv'
<1>1. At("import") /\ Go("ensure")
  BY DEF BootstrapHeaders
<1>2. CASE NoWrite /\ KeepCopies /\ UNCHANGED faults
  <2>1. DbOK' /\ LogGrows /\ faults' \in 0..MaxFaults
    BY <1>2, QuietStep
  <2> QED  BY <1>1, <1>2, <2>1, KeptHeadersKeepInv DEF NoWrite
<1>3. CASE file.headers # Bad /\ SaveHeaders(Imported)
  <2>1. Imported \in HeaderSets
    BY <1>3, ImportedType DEF IndInv
  <2> QED  BY <1>1, <1>3, <2>1, SaveHeadersKeepsInv
<1> QED  BY <1>2, <1>3 DEF BootstrapHeaders

\* A failed write of the row of the overrides leaves the templates alone.
LEMMA FailedHeaders ==
  ASSUME TypeOK, RowsAreLogged, NEW v \in HeaderSets, SaveFails("headers", v, Boot)
  PROVE  /\ DbOK' /\ LogGrows /\ faults' \in 0..MaxFaults
         /\ disk'["templates"] = disk["templates"]
<1>1. "headers" \in Stores /\ v \in Values("headers") /\ "templates" \in Stores
  BY ValuesAreRows DEF Stores
<1>2. DbOK' /\ LogGrows /\ faults' \in 0..MaxFaults
  BY <1>1, SaveFailsKeepsDb
<1>3. disk'["templates"] = disk["templates"]
  BY <1>1 DEF SaveFails, Commit, TypeOK
<1> QED  BY <1>2, <1>3

LEMMA BootstrapHeadersFailsKeepsInv ==
  ASSUME IndInv, BootstrapHeadersFails
  PROVE  IndInv'
<1>1. At("import") /\ Go("ensure") /\ KeepCopies /\ TypeOK /\ RowsAreLogged
  BY DEF BootstrapHeadersFails, IndInv
<1>2. CASE Fault /\ NoWrite
  <2>1. DbOK' /\ LogGrows /\ faults' \in 0..MaxFaults
    BY <1>1, <1>2, NoWriteKeepsDb, FaultType
  <2> QED  BY <1>1, <1>2, <2>1, KeptHeadersKeepInv DEF NoWrite
<1>3. CASE /\ disk["headers"] = None /\ file.headers # Bad
           /\ SaveFails("headers", Imported, Boot)
  <2>1. Imported \in HeaderSets
    BY <1>1, <1>3, ImportedType
  <2>2. /\ DbOK' /\ LogGrows /\ faults' \in 0..MaxFaults
        /\ disk'["templates"] = disk["templates"]
    BY <1>1, <1>3, <2>1, FailedHeaders
  <2>3. served["headers"].mihomo = Empty
    <3>1. /\ served["headers"] \in HeaderSets
          /\ served["headers"].mihomo # Empty => served["headers"] = disk["headers"]
      BY <1>1 DEF IndInv, CopiesAreLogged, At
    <3> QED  BY <1>3, <3>1, NoneAssumption
  <2> QED  BY <1>1, <2>2, <2>3, KeptHeadersKeepInv
<1> QED  BY <1>1, <1>2, <1>3 DEF BootstrapHeadersFails

LEMMA EnsureMihomoOverridesKeepsInv ==
  ASSUME IndInv, EnsureMihomoOverrides
  PROVE  IndInv' /\ served'["headers"] = disk'["headers"]
<1>1. At("ensure") /\ Go("serving")
  BY DEF EnsureMihomoOverrides
<1>2. /\ served["headers"] \in HeaderSets
      /\ served["headers"].mihomo # Empty => served["headers"] = disk["headers"]
  BY <1>1 DEF IndInv, CopiesAreLogged, At
<1>3. CASE /\ served["headers"].mihomo # Empty
           /\ NoWrite /\ KeepCopies /\ UNCHANGED faults
  <2>1. DbOK' /\ LogGrows /\ faults' \in 0..MaxFaults
    BY <1>3, QuietStep
  <2>2. IndInv'
    BY <1>1, <1>3, <2>1, KeptHeadersKeepInv DEF NoWrite
  <2> QED  BY <1>2, <1>3, <2>2 DEF NoWrite, KeepCopies
<1>4. CASE SaveHeaders(Completed(served["headers"]))
  <2>1. Completed(served["headers"]) \in HeaderSets
    BY <1>2, CompletedType
  <2> QED  BY <1>1, <1>4, <2>1, SaveHeadersKeepsInv
<1> QED  BY <1>3, <1>4 DEF EnsureMihomoOverrides

LEMMA EnsureMihomoOverridesFailsKeepsInv ==
  ASSUME IndInv, EnsureMihomoOverridesFails
  PROVE  IndInv'
<1>1. At("ensure") /\ Exit /\ TypeOK /\ RowsAreLogged
  BY DEF EnsureMihomoOverridesFails, IndInv
<1>2. Completed(served["headers"]) \in HeaderSets
  BY <1>1, CompletedType DEF IndInv, CopiesAreLogged, At
<1>3. DbOK' /\ LogGrows /\ faults' \in 0..MaxFaults
  BY <1>1, <1>2, FailedHeaders DEF EnsureMihomoOverridesFails
<1> QED  BY <1>1, <1>3, ExitKeepsInv DEF Steps

LEMMA CrashKeepsInv ==
  ASSUME IndInv, Crash
  PROVE  IndInv'
<1>1. /\ boot' = "down" /\ served' = [s \in Stores |-> None]
      /\ servedAt' = [s \in Stores |-> 0]
      /\ UNCHANGED <<file, before>> /\ NoWrite /\ Fault
      /\ TypeOK /\ RowsAreLogged
  BY DEF Crash, Exit, Go, IndInv
<1>2. DbOK' /\ LogGrows /\ faults' \in 0..MaxFaults
  BY <1>1, NoWriteKeepsDb, FaultType
<1>3. post' = [r \in Requests |->
                IF post[r].at \in {"save", "apply"} THEN [post[r] EXCEPT !.at = "lost"]
                ELSE post[r]]
  BY DEF Crash
<1>4. /\ post' \in [Requests -> Posts]
      /\ \A r \in Requests : post'[r].at \notin {"save", "apply"}
      /\ \A r \in Requests : post'[r].at # "new" => post'[r].value \in Values(post'[r].store)
  <2>1. ASSUME NEW r \in Requests
        PROVE  /\ post'[r] \in Posts /\ post'[r].at \notin {"save", "apply"}
               /\ post'[r].at # "new" => post'[r].value \in Values(post'[r].store)
    <3>1. /\ post[r] \in Posts
          /\ post[r].at # "new" => post[r].value \in Values(post[r].store)
      BY <1>1 DEF TypeOK
    <3>2. CASE post[r].at \in {"save", "apply"}
      <4>1. post'[r] = [post[r] EXCEPT !.at = "lost"]
        BY <1>3, <3>2
      <4> QED  BY <3>1, <3>2, <4>1 DEF Posts, Ended
    <3>3. CASE post[r].at \notin {"save", "apply"}
      BY <1>3, <3>1, <3>3
    <3> QED  BY <3>2, <3>3
  <2>2. DOMAIN post' = Requests
    BY <1>3
  <2>3. post' = [r \in Requests |-> post'[r]]
    BY <1>3
  <2> QED  BY <2>1, <2>3
<1>5. TypeOK'
  BY <1>1, <1>2, <1>4 DEF TypeOK, DbOK, Steps
<1>6. PostsAreLogged'
  BY <1>4 DEF PostsAreLogged
<1>7. CopiesAreLogged'
  BY <1>1 DEF CopiesAreLogged, Stores
<1> QED  BY <1>2, <1>5, <1>6, <1>7 DEF IndInv, DbOK

-----------------------------------------------------------------------------
(* The POSTs.                                                               *)

LEMMA PostKeepsInv ==
  ASSUME IndInv, NEW r \in Requests, NEW s \in Stores, NEW v \in Values(s), Post(r, s, v)
  PROVE  IndInv'
<1> DEFINE new == [at |-> IF served[s] = None THEN "failed" ELSE "save",
                   store |-> s, value |-> v, commit |-> 0]
<1>1. /\ post' = [post EXCEPT ![r] = new]
      /\ boot = "serving" /\ TypeOK
      /\ UNCHANGED <<file, disk, served, boot, faults, commits, servedAt>>
  BY DEF Post, IndInv
<1>2. /\ new \in Posts
      /\ new.value \in Values(new.store) /\ new.at # "apply"
  BY ValuesAreRows DEF Posts, Ended, Values
<1> HIDE DEF new
<1>3. /\ post' \in [Requests -> Posts]
      /\ \A q \in Requests : post'[q].at # "new" => post'[q].value \in Values(post'[q].store)
      /\ \A q \in Requests : post'[q] = post[q] \/ post'[q].at # "apply"
  BY <1>1, <1>2 DEF TypeOK
<1>4. before' \in [Requests -> SUBSET Requests]
  BY <1>1 DEF Post, TypeOK
<1>5. TypeOK'
  BY <1>1, <1>3, <1>4 DEF TypeOK
<1>6. PostsAreLogged'
  BY <1>1, <1>3 DEF IndInv, PostsAreLogged
<1>7. RowsAreLogged' /\ CopiesAreLogged'
  BY <1>1 DEF IndInv, RowsAreLogged, CopiesAreLogged, IsLogged
<1> QED  BY <1>5, <1>6, <1>7 DEF IndInv

\* Between two steps of a POST that leave the copies alone.
LEMMA WritingPost ==
  ASSUME IndInv, NEW r \in Requests, boot = "serving",
         UNCHANGED <<file, served, boot, servedAt, before>>,
         DbOK', LogGrows, faults' \in 0..MaxFaults,
         NEW at \in {"apply", "failed"}, NEW n \in Nat,
         post' = [post EXCEPT ![r].at = at, ![r].commit = n],
         post[r].value \in Values(post[r].store),
         at = "apply" => /\ n \in 1..Len(commits'[post[r].store])
                         /\ commits'[post[r].store][n].value = post[r].value
  PROVE  IndInv'
<1>1. /\ post' \in [Requests -> Posts]
      /\ \A q \in Requests : q # r => post'[q] = post[q]
      /\ post'[r] = [post[r] EXCEPT !.at = at, !.commit = n]
      /\ post[r] \in Posts
      /\ TypeOK
  <2>1. TypeOK /\ post \in [Requests -> Posts] /\ post[r] \in Posts
    BY DEF IndInv, TypeOK
  <2>2. [post[r] EXCEPT !.at = at, !.commit = n] \in Posts
    BY <2>1 DEF Posts, Ended
  <2>3. /\ post' = [post EXCEPT ![r] = [post[r] EXCEPT !.at = at, !.commit = n]]
    BY <2>1
  <2> QED  BY <2>1, <2>2, <2>3
<1>2. /\ post'[r].at = at /\ post'[r].commit = n
      /\ post'[r].store = post[r].store /\ post'[r].value = post[r].value
  BY <1>1 DEF Posts
<1>3. TypeOK'
  BY <1>1, <1>2 DEF TypeOK, DbOK
<1>4. PostsAreLogged'
  <2> SUFFICES ASSUME NEW q \in Requests
               PROVE  /\ post'[q].at \in {"save", "apply"} => boot' = "serving"
                      /\ post'[q].at = "apply" =>
                           /\ post'[q].commit \in 1..Len(commits'[post'[q].store])
                           /\ commits'[post'[q].store][post'[q].commit].value = post'[q].value
    BY DEF PostsAreLogged
  <2>1. CASE q = r
    BY <1>2, <2>1
  <2>2. CASE q # r
    <3>1. post'[q] = post[q] /\ post[q].store \in Stores
      BY <1>1, <2>2 DEF TypeOK, Posts
    <3>2. post[q].at = "apply" =>
            /\ post[q].commit \in 1..Len(commits[post[q].store])
            /\ commits[post[q].store][post[q].commit].value = post[q].value
      BY DEF IndInv, PostsAreLogged
    <3>3. CASE post[q].at = "apply"
      <4> DEFINE s == post[q].store
                 i == post[q].commit
      <4>1. /\ Len(commits'[s]) \in Nat /\ Len(commits[s]) \in Nat
            /\ Len(commits'[s]) >= Len(commits[s])
            /\ \A j \in 1..Len(commits[s]) : commits'[s][j] = commits[s][j]
        BY <3>1 DEF LogGrows
      <4>2. i \in 1..Len(commits[s]) /\ commits[s][i].value = post[q].value
        BY <3>2, <3>3
      <4>3. i \in 1..Len(commits'[s])
        BY <4>1, <4>2
      <4>4. commits'[s][i] = commits[s][i]
        BY <4>1, <4>2
      <4>5. commits'[s][i].value = post[q].value
        BY <4>2, <4>4
      <4> QED  BY <3>1, <4>3, <4>5
    <3>4. post'[q].at \in {"save", "apply"} => boot' = "serving"
      OBVIOUS
    <3> QED  BY <3>1, <3>3, <3>4
  <2> QED  BY <2>1, <2>2
<1>5. \A s \in Stores : IsLogged(s) => IsLogged(s)'
  BY <1>1, LoggedStays
<1>6. CopiesAreLogged'
  BY <1>5 DEF IndInv, CopiesAreLogged, Stores
<1> QED  BY <1>3, <1>4, <1>6 DEF IndInv, DbOK

LEMMA SaveRowKeepsInv ==
  ASSUME IndInv, NEW r \in Requests, SaveRow(r)
  PROVE  IndInv'
<1> DEFINE s == post[r].store
           v == post[r].value
           n == Len(commits'[s])
<1>1. /\ post[r].at = "save" /\ boot = "serving" /\ s \in Stores /\ v \in Values(s)
      /\ TypeOK /\ RowsAreLogged
  BY DEF SaveRow, IndInv, PostsAreLogged, TypeOK, Posts
<1>2. /\ Commit(s, v, r) /\ faults' = faults
      /\ post' = [post EXCEPT ![r].at = "apply", ![r].commit = n]
      /\ UNCHANGED <<file, served, boot, servedAt, before>>
  BY DEF SaveRow, Save
<1> HIDE DEF s, v
<1>3. DbOK' /\ LogGrows
  BY <1>1, <1>2, CommitKeepsDb
<1>4. /\ Len(commits'[s]) = Len(commits[s]) + 1
      /\ commits'[s][Len(commits'[s])] = [by |-> r, value |-> v]
  BY <1>1, <1>2, CommitEffect
<1>5. Len(commits[s]) \in Nat /\ n \in Nat
  BY <1>1, <1>3 DEF LogGrows
<1>6. n \in 1..Len(commits'[s]) /\ commits'[s][n].value = v
  BY <1>4, <1>5
<1>7. faults' \in 0..MaxFaults
  BY <1>1, <1>2 DEF TypeOK
<1> HIDE DEF n
<1> QED  BY <1>1, <1>2, <1>3, <1>5, <1>6, <1>7, WritingPost DEF s, v

LEMMA SaveRowFailsKeepsInv ==
  ASSUME IndInv, NEW r \in Requests, SaveRowFails(r)
  PROVE  IndInv'
<1>1. /\ post[r].at = "save" /\ boot = "serving" /\ post[r].store \in Stores
      /\ post[r].value \in Values(post[r].store)
      /\ post[r].commit \in Nat
      /\ TypeOK /\ RowsAreLogged
  BY DEF SaveRowFails, IndInv, PostsAreLogged, TypeOK, Posts
<1>2. /\ SaveFails(post[r].store, post[r].value, r)
      /\ post' = [post EXCEPT ![r].at = "failed"]
      /\ UNCHANGED <<file, served, boot, servedAt, before>>
  BY DEF SaveRowFails
<1>3. DbOK' /\ LogGrows /\ faults' \in 0..MaxFaults
  BY <1>1, <1>2, SaveFailsKeepsDb
<1>4. post' = [post EXCEPT ![r].at = "failed", ![r].commit = post[r].commit]
  BY <1>1, <1>2 DEF TypeOK
<1> QED  BY <1>1, <1>2, <1>3, <1>4, WritingPost

LEMMA ApplyKeepsInv ==
  ASSUME IndInv, NEW r \in Requests, Apply(r)
  PROVE  IndInv'
<1>1. PICK s \in Stores, v \in Values(post[r].store), n \in Nat :
        s = post[r].store /\ v = post[r].value /\ n = post[r].commit
  BY DEF Apply, IndInv, TypeOK, Posts
<1>2. /\ boot = "serving" /\ TypeOK /\ RowsAreLogged /\ v \in Values(s)
      /\ n \in 1..Len(commits[s]) /\ commits[s][n].value = v
  BY <1>1 DEF Apply, IndInv, PostsAreLogged
<1>3. /\ Serve(s, v, n)
      /\ post' = [post EXCEPT ![r].at = "saved"]
      /\ UNCHANGED <<disk, commits, file, boot, faults, before>>
  BY <1>1 DEF Apply, NoWrite
<1>4. DbOK' /\ LogGrows /\ faults' \in 0..MaxFaults
  BY <1>2, <1>3, NoWriteKeepsDb DEF TypeOK, NoWrite
<1>5. post' \in [Requests -> Posts] /\ \A q \in Requests : q # r => post'[q] = post[q]
  <2>1. post \in [Requests -> Posts] /\ post[r] \in Posts
    BY <1>2 DEF TypeOK
  <2>2. [post[r] EXCEPT !.at = "saved"] \in Posts
    BY <2>1 DEF Posts, Ended
  <2>3. post' = [post EXCEPT ![r] = [post[r] EXCEPT !.at = "saved"]]
    BY <1>3, <2>1
  <2> QED  BY <2>1, <2>2, <2>3
<1>6. post'[r].at = "saved" /\ post'[r].store = s /\ post'[r].value = v
  BY <1>1, <1>2, <1>3 DEF TypeOK, Posts
<1>7. /\ DOMAIN served' = Stores /\ servedAt' \in [Stores -> Nat]
      /\ served'[s] = v /\ servedAt'[s] = n
      /\ \A t \in Stores : t # s => served'[t] = served[t] /\ servedAt'[t] = servedAt[t]
  BY <1>1, <1>2, <1>3 DEF Serve, TypeOK
<1>8. TypeOK'
  <2>1. \A t \in Stores : served'[t] \in Values(t) \union {None}
    <3> SUFFICES ASSUME NEW t \in Stores
                 PROVE  served'[t] \in Values(t) \union {None}
      OBVIOUS
    <3>1. CASE t = s
      BY <1>2, <1>7, <3>1
    <3>2. CASE t # s
      BY <1>2, <1>7, <3>2 DEF TypeOK
    <3> QED  BY <3>1, <3>2
  <2>2. \A q \in Requests : post'[q].at # "new" => post'[q].value \in Values(post'[q].store)
    <3> SUFFICES ASSUME NEW q \in Requests
                 PROVE  post'[q].at # "new" => post'[q].value \in Values(post'[q].store)
      OBVIOUS
    <3>1. CASE q = r
      BY <1>1, <1>2, <1>6, <3>1
    <3>2. CASE q # r
      BY <1>2, <1>5, <3>2 DEF TypeOK
    <3> QED  BY <3>1, <3>2
  <2> QED  BY <1>2, <1>3, <1>4, <1>5, <1>7, <2>1, <2>2 DEF TypeOK, DbOK
<1>9. PostsAreLogged'
  <2> SUFFICES ASSUME NEW q \in Requests
               PROVE  /\ post'[q].at \in {"save", "apply"} => boot' = "serving"
                      /\ post'[q].at = "apply" =>
                           /\ post'[q].commit \in 1..Len(commits'[post'[q].store])
                           /\ commits'[post'[q].store][post'[q].commit].value = post'[q].value
    BY DEF PostsAreLogged
  <2>1. CASE q = r
    BY <1>6, <2>1
  <2>2. CASE q # r
    BY <1>3, <1>5, <2>2 DEF IndInv, PostsAreLogged
  <2> QED  BY <2>1, <2>2
<1>10. IsLogged(s)'
  BY <1>2, <1>3, <1>7 DEF IsLogged
<1>11. ASSUME NEW t \in Stores, t # s, IsLogged(t)
       PROVE  IsLogged(t)'
  BY <1>3, <1>7, <1>11 DEF IsLogged
<1>12. CopiesAreLogged'
  <2>1. IsLogged("templates")
    BY <1>2 DEF IndInv, CopiesAreLogged
  <2>2. served["headers"] = None \/ IsLogged("headers")
    BY <1>2 DEF IndInv, CopiesAreLogged
  <2>3. IsLogged("templates")'
    BY <1>10, <1>11, <2>1 DEF Stores
  <2>4. served'["headers"] = None \/ IsLogged("headers")'
    BY <1>7, <1>10, <1>11, <2>2 DEF Stores
  <2> QED  BY <1>2, <1>3, <2>3, <2>4 DEF CopiesAreLogged
<1> QED  BY <1>4, <1>8, <1>9, <1>12 DEF IndInv, DbOK

-----------------------------------------------------------------------------
(* The theorems.                                                            *)

LEMMA InitInv == Init => IndInv
<1> SUFFICES ASSUME Init PROVE IndInv
  OBVIOUS
<1>1. \A s \in Stores : commits[s] = <<>> /\ disk[s] = None /\ served[s] = None
  BY DEF Init
<1>2. <<>> \in Seq([by : Requests \union {Boot}, value : Libraries])
      /\ <<>> \in Seq([by : Requests \union {Boot}, value : HeaderSets])
  OBVIOUS
<1>3. \A s \in Stores : commits[s] \in Seq([by : Requests \union {Boot}, value : Values(s)])
  BY <1>1, <1>2, ValuesAreRows DEF Stores
<1>4. post \in [Requests -> Posts] /\ \A r \in Requests : post[r].at = "new"
  BY DEF Init, Posts, Stores
<1>5. TypeOK
  BY <1>1, <1>3, <1>4, AdminAssumption DEF Init, TypeOK, Steps
<1>6. RowsAreLogged
  BY <1>1 DEF RowsAreLogged
<1>7. PostsAreLogged
  BY <1>4 DEF PostsAreLogged
<1>8. CopiesAreLogged
  BY <1>1 DEF Init, CopiesAreLogged, Stores
<1> QED  BY <1>5, <1>6, <1>7, <1>8 DEF IndInv

\* No step leads out of the inductive invariant.
LEMMA NextKeepsInv ==
  ASSUME IndInv, [Next]_vars
  PROVE  IndInv'
<1>1. CASE BootStep
  BY <1>1, StartKeepsInv, BootstrapConfigsKeepsInv, LoadTemplateSetKeepsInv,
     LoadHeaderStoreKeepsInv, BootstrapHeadersKeepsInv, EnsureMihomoOverridesKeepsInv
     DEF BootStep
<1>2. CASE BootFault
  BY <1>2, BootstrapConfigsFailsKeepsInv, LoadTemplateSetFailsKeepsInv,
     LoadHeaderStoreFailsKeepsInv, BootstrapHeadersFailsKeepsInv,
     EnsureMihomoOverridesFailsKeepsInv
     DEF BootFault
<1>3. CASE Crash
  BY <1>3, CrashKeepsInv
<1>4. ASSUME NEW r \in Requests, NEW s \in Stores, NEW v \in Values(s), Post(r, s, v)
      PROVE  IndInv'
  BY <1>4, PostKeepsInv
<1>5. ASSUME NEW r \in Requests, PostStep(r) \/ SaveRowFails(r)
      PROVE  IndInv'
  BY <1>5, SaveRowKeepsInv, SaveRowFailsKeepsInv, ApplyKeepsInv DEF PostStep
<1>6. CASE UNCHANGED vars
  BY <1>6 DEF vars, IndInv, TypeOK, RowsAreLogged, PostsAreLogged, CopiesAreLogged, IsLogged
<1> QED  BY <1>1, <1>2, <1>3, <1>4, <1>5, <1>6 DEF Next

\* The rows, the POSTs and the copies agree with the log of writes, whatever
\* the order of POSTs, failed writes, crashes and starts.
THEOREM Invariance == Spec => []IndInv
<1>1. Init => IndInv
  BY InitInv
<1>2. IndInv /\ [Next]_vars => IndInv'
  BY NextKeepsInv
<1> QED  BY <1>1, <1>2, PTL DEF Spec

THEOREM TypeCorrect == Spec => []TypeOK
<1>1. IndInv => TypeOK
  BY DEF IndInv
<1> QED  BY <1>1, Invariance, PTL

\* Nothing is served that SQLite has not held: no crash takes back what a
\* subscriber has seen (main.go 69-126, server.go 221-229, headers.go 118-132).
THEOREM WriteAheadHolds == Spec => []WriteAhead
<1>1. IndInv => WriteAhead
  BY DEF IndInv, CopiesAreLogged, WriteAhead, IsLogged, Stores
<1> QED  BY <1>1, Invariance, PTL

\* A start that reaches the listener serves the newest row of each setting,
\* however the start went.
THEOREM StartServesNewestHolds == Spec => StartServesNewest
<1> DEFINE Newest == boot # "serving" /\ boot' = "serving" =>
                       \A s \in Stores : served'[s] # None => served'[s] = disk'[s]
<1>1. ASSUME IndInv, [Next]_vars
      PROVE  Newest
  <2> SUFFICES ASSUME boot # "serving", boot' = "serving"
               PROVE  \A s \in Stores : served'[s] # None => served'[s] = disk'[s]
    OBVIOUS
  <2>1. LoadHeaderStoreFails \/ EnsureMihomoOverrides
    BY <1>1 DEF Next, BootStep, BootFault, Start, BootstrapConfigs, BootstrapConfigsFails,
       LoadTemplateSet, LoadTemplateSetFails, LoadHeaderStore, BootstrapHeaders,
       BootstrapHeadersFails, EnsureMihomoOverridesFails, Crash, Post, PostStep, SaveRow,
       SaveRowFails, Apply, Exit, Go, vars
  <2>2. CASE LoadHeaderStoreFails
    BY <1>1, <2>2 DEF LoadHeaderStoreFails, At, KeepCopies, NoWrite, IndInv,
       CopiesAreLogged, Stores
  <2>3. CASE EnsureMihomoOverrides
    <3>1. served'["headers"] = disk'["headers"]
      BY <1>1, <2>3, EnsureMihomoOverridesKeepsInv
    <3>2. served["templates"] = disk["templates"]
      BY <1>1, <2>3 DEF EnsureMihomoOverrides, At, IndInv, CopiesAreLogged
    <3>3. disk'["templates"] = disk["templates"] /\ served'["templates"] = served["templates"]
      BY <1>1, <2>3 DEF EnsureMihomoOverrides, NoWrite, KeepCopies, SaveHeaders, Save, Commit,
         Serve, IndInv, TypeOK, Stores
    <3> QED  BY <3>1, <3>2, <3>3 DEF Stores
  <2> QED  BY <2>1, <2>2, <2>3
<1>2. IndInv /\ [Next]_vars => [Newest]_vars
  BY <1>1
<1> QED  BY <1>2, Invariance, PTL DEF Spec, StartServesNewest

\* A step writes the row of the templates at most once, and a start writes it
\* only if there has never been one.
LEMMA TemplateWrites ==
  ASSUME IndInv, [Next]_vars
  PROVE  \/ commits'["templates"] = commits["templates"]
         \/ \E who \in Requests \union {Boot}, v \in Libraries :
              /\ commits'["templates"] = Append(commits["templates"], [by |-> who, value |-> v])
              /\ who = Boot => commits["templates"] = <<>>
<1> DEFINE Same == commits'["templates"] = commits["templates"]
           Wrote == \E who \in Requests \union {Boot}, v \in Libraries :
              /\ commits'["templates"] = Append(commits["templates"], [by |-> who, value |-> v])
              /\ who = Boot => commits["templates"] = <<>>
<1>1. TypeOK /\ RowsAreLogged /\ "templates" \in Stores /\ "headers" \in Stores
      /\ Values("templates") = Libraries
  BY ValuesAreRows DEF IndInv, Stores
<1>2. ASSUME NEW s \in Stores, NEW v \in Values(s), NEW who \in Requests \union {Boot},
             Commit(s, v, who), s = "templates" /\ who = Boot => commits["templates"] = <<>>
      PROVE  Same \/ Wrote
  <2>1. CASE s = "templates"
    BY <1>1, <1>2, <2>1 DEF Commit, TypeOK
  <2>2. CASE s # "templates"
    BY <1>1, <1>2, <2>2 DEF Commit, TypeOK
  <2> QED  BY <2>1, <2>2
<1>3. CASE BootstrapConfigs \/ BootstrapConfigsFails
  <2>1. CASE commits' = commits
    BY <2>1
  <2>2. CASE /\ disk["templates"] = None /\ file.templates # Bad
             /\ Commit("templates", file.templates, Boot)
    <3>1. file.templates \in Libraries /\ commits["templates"] = <<>>
      BY <1>1, <2>2 DEF TypeOK, RowsAreLogged
    <3> QED  BY <1>1, <2>2, <3>1 DEF Commit, TypeOK
  <2> QED  BY <1>3, <2>1, <2>2 DEF BootstrapConfigs, BootstrapConfigsFails, NoWrite, Save, SaveFails
<1>4. ASSUME NEW r \in Requests, SaveRow(r) \/ SaveRowFails(r)
      PROVE  Same \/ Wrote
  <2>1. r # Boot /\ post[r].store \in Stores /\ post[r].value \in Values(post[r].store)
    BY <1>1, <1>4, AdminAssumption DEF SaveRow, SaveRowFails, TypeOK, Posts
  <2>2. CASE commits' = commits
    BY <2>2
  <2>3. CASE Commit(post[r].store, post[r].value, r)
    BY <1>2, <2>1, <2>3
  <2> QED  BY <1>4, <2>2, <2>3 DEF SaveRow, SaveRowFails, Save, SaveFails
<1>5. ASSUME NEW v, SaveHeaders(v) \/ SaveFails("headers", v, Boot)
      PROVE  Same
  BY <1>1, <1>5 DEF SaveHeaders, Save, SaveFails, Commit, TypeOK
<1>6. CASE BootstrapHeaders \/ BootstrapHeadersFails
  BY <1>5, <1>6 DEF BootstrapHeaders, BootstrapHeadersFails, NoWrite
<1>7. CASE EnsureMihomoOverrides \/ EnsureMihomoOverridesFails
  BY <1>5, <1>7 DEF EnsureMihomoOverrides, EnsureMihomoOverridesFails, NoWrite
<1>8. CASE \/ Start \/ LoadTemplateSet \/ LoadTemplateSetFails \/ LoadHeaderStore
           \/ LoadHeaderStoreFails \/ Crash
  BY <1>8 DEF Start, LoadTemplateSet, LoadTemplateSetFails, LoadHeaderStore,
     LoadHeaderStoreFails, Crash, NoWrite
<1>9. CASE \E r \in Requests : Apply(r) \/ \E s \in Stores : \E v \in Values(s) : Post(r, s, v)
  BY <1>9 DEF Apply, Post, NoWrite
<1>10. CASE UNCHANGED vars
  BY <1>10 DEF vars
<1>11. Same \/ Wrote
  BY <1>3, <1>4, <1>6, <1>7, <1>8, <1>9, <1>10 DEF Next, BootStep, BootFault, PostStep
<1> QED  BY <1>11

\* No start overwrites templates that are in the database, whatever failed or
\* was committed before it.
THEOREM BootstrapsOnceHolds == Spec => []BootstrapsOnce
<1>1. Init => BootstrapsOnce
  BY DEF Init, BootstrapsOnce, Stores
<1>2. ASSUME IndInv, BootstrapsOnce, [Next]_vars
      PROVE  BootstrapsOnce'
  <2>1. CASE commits'["templates"] = commits["templates"]
    BY <1>2, <2>1 DEF BootstrapsOnce
  <2>2. ASSUME NEW who \in Requests \union {Boot}, NEW v \in Libraries,
               commits'["templates"] = Append(commits["templates"], [by |-> who, value |-> v]),
               who = Boot => commits["templates"] = <<>>
        PROVE  BootstrapsOnce'
    <3> DEFINE log == commits["templates"]
               new == [by |-> who, value |-> v]
    <3>1. log \in Seq([by : Requests \union {Boot}, value : Libraries])
      BY <1>2, ValuesAreRows DEF IndInv, TypeOK, Stores
    <3>2. new \in [by : Requests \union {Boot}, value : Libraries] /\ new.by = who
      OBVIOUS
    <3> HIDE DEF log, new
    <3>3. /\ Len(log) \in Nat /\ Len(Append(log, new)) = Len(log) + 1
          /\ Append(log, new)[Len(log) + 1] = new
          /\ \A i \in 1..Len(log) : Append(log, new)[i] = log[i]
      BY <3>1, <3>2
    <3>4. \A i \in 2..Len(log) : log[i].by # Boot
      BY <1>2 DEF BootstrapsOnce, log
    <3>5. ASSUME NEW i \in 2..Len(Append(log, new))
          PROVE  Append(log, new)[i].by # Boot
      <4>1. CASE i \in 2..Len(log)
        BY <3>3, <3>4, <4>1
      <4>2. CASE i = Len(log) + 1
        <5>1. Len(log) > 0
          BY <3>3, <4>2
        <5>2. who # Boot
          BY <2>2, <5>1 DEF log
        <5> QED  BY <3>2, <3>3, <4>2, <5>2
      <4> QED  BY <3>3, <4>1, <4>2
    <3> QED  BY <2>2, <3>5 DEF BootstrapsOnce, log, new
  <2> QED  BY <1>2, <2>1, <2>2, TemplateWrites
<1>3. BootstrapsOnce /\ UNCHANGED vars => BootstrapsOnce'
  BY DEF BootstrapsOnce, vars
<1>4. IndInv /\ BootstrapsOnce /\ [Next]_vars => BootstrapsOnce'
  BY <1>2
<1> QED  BY <1>1, <1>4, Invariance, PTL DEF Spec

-----------------------------------------------------------------------------
(* Who wrote what: the second inductive invariant.  A step writes at most   *)
(* one entry of the log, and a POST's step changes that POST alone.          *)

\* What no step does to a POST, but for the POST's own write.
Stands(q) ==
  /\ post[q].at \notin {"new", "save"} =>
       /\ post'[q].at \notin {"new", "save"}
       /\ post'[q].store = post[q].store /\ post'[q].value = post[q].value
  /\ post[q].at \in Ended => post'[q].at \in Ended
  /\ post'[q].at \in {"apply", "saved"} =>
       /\ post[q].at \in {"apply", "saved"}
       /\ post'[q].store = post[q].store /\ post'[q].commit = post[q].commit
  /\ post'[q].at = "apply" => post[q].at = "apply"
  /\ post'[q].at = "lost" /\ post[q].at # "lost" => boot' = "down"

\* A step that writes no row.
QuietLog ==
  /\ commits' = commits
  /\ \A q \in Requests :
       /\ Stands(q)
       /\ \/ before'[q] = before[q]
          \/ post[q].at = "new" /\ \A p \in before'[q] : p # q /\ post[p].at \in Ended
  /\ boot' = "down" => \A q \in Requests : post'[q].at # "apply"

\* A row a start writes: the templates if there has been no row, overrides if no
\* POST has written any, or the completion of the row.
MayStart(s, v) ==
  \/ commits[s] = <<>>
  \/ s = "headers" /\ OnlyStarts(s)
  \/ s = "headers" /\ disk[s] # None /\ disk[s].mihomo = Empty /\ v = Completed(disk[s])

StartWrites(s, v) ==
  /\ Commit(s, v, Boot) /\ MayStart(s, v)
  /\ boot # "serving" /\ UNCHANGED <<post, before>>

PostWrites(r) ==
  /\ post[r].at = "save" /\ boot = "serving"
  /\ Commit(post[r].store, post[r].value, r)
  /\ before' = before
  /\ \A q \in Requests \ {r} : post'[q] = post[q]
  /\ post'[r].store = post[r].store /\ post'[r].value = post[r].value
  /\ post'[r].at \in {"apply", "failed"}
  /\ post'[r].at = "apply" => post'[r].commit = Len(commits'[post[r].store])

\* The types the lemmas below need, in this state and the next.
LEMMA LogTypes ==
  ASSUME IndInv
  PROVE  /\ Boot \notin Requests
         /\ \A s \in Stores :
              /\ Len(commits[s]) \in Nat
              /\ \A i \in 1..Len(commits[s]) : Writer(s, i) \in Requests \union {Boot}
         /\ \A r \in Requests : post[r].store \in Stores /\ before[r] \subseteq Requests
<1>1. \A s \in Stores : commits[s] \in Seq([by : Requests \union {Boot}, value : Values(s)])
  BY DEF IndInv, TypeOK
<1>2. \A s \in Stores : Len(commits[s]) \in Nat
  BY <1>1
<1>3. ASSUME NEW s \in Stores, NEW i \in 1..Len(commits[s])
      PROVE  Writer(s, i) \in Requests \union {Boot}
  <2> DEFINE Write == [by : Requests \union {Boot}, value : Values(s)]
  <2>1. commits[s] \in Seq(Write)
    BY <1>1
  <2> HIDE DEF Write
  <2>2. commits[s][i] \in Write
    BY <2>1
  <2> QED  BY <2>2 DEF Writer, Write
<1> QED  BY <1>2, <1>3, AdminAssumption DEF IndInv, TypeOK, Posts

\* What an entry goes back to does not change as the log grows.
LEMMA StemsStay ==
  ASSUME IndInv, LogGrows, NEW s \in Stores, NEW i \in 1..Len(commits[s]), NEW k \in 1..i,
         StemsFrom(s, i, k)
  PROVE  StemsFrom(s, i, k)'
<1>1. Len(commits[s]) \in Nat
  BY LogTypes
<1>2. \A j \in 1..i : commits'[s][j] = commits[s][j]
  BY <1>1 DEF LogGrows
<1>3. k \in 1..i /\ i \in 1..i /\ \A j \in (k + 1)..i : j \in 1..i
  BY <1>1
<1> QED  BY <1>2, <1>3 DEF StemsFrom, Writer

LEMMA QuietLogKeepsLog ==
  ASSUME IndInv, IndInv', LogInv, QuietLog
  PROVE  LogInv'
<1> DEFINE Ok(q) ==
      /\ Stands(q)
      /\ \/ before'[q] = before[q]
         \/ post[q].at = "new" /\ \A p \in before'[q] : p # q /\ post[p].at \in Ended
<1>1. /\ commits' = commits /\ \A q \in Requests : Ok(q)
      /\ \A s \in Stores : /\ Len(commits[s]) \in Nat
                           /\ \A i \in 1..Len(commits[s]) :
                                /\ Writer(s, i)' = Writer(s, i)
                                /\ Writer(s, i) \in Requests \union {Boot}
      /\ \A r \in Requests : /\ post[r].store \in Stores /\ post'[r].store \in Stores
                             /\ before'[r] \subseteq Requests /\ before[r] \subseteq Requests
  <2>1. /\ \A s \in Stores :
             /\ Len(commits[s]) \in Nat
             /\ \A i \in 1..Len(commits[s]) : Writer(s, i) \in Requests \union {Boot}
        /\ \A r \in Requests : post[r].store \in Stores /\ before[r] \subseteq Requests
    BY LogTypes
  <2>2. \A r \in Requests : post'[r].store \in Stores /\ before'[r] \subseteq Requests
    BY DEF IndInv, TypeOK, Posts
  <2> QED  BY <2>1, <2>2 DEF QuietLog, Writer
<1>2. EntriesNamePosts'
  BY <1>1 DEF LogInv, EntriesNamePosts, Stands
<1>3. RowsNamePosts'
  BY <1>1 DEF LogInv, RowsNamePosts, Stands
<1>4. BeforeHaveEnded'
  BY <1>1 DEF LogInv, BeforeHaveEnded, Stands
<1>5. WritesInOrder'
  <2> SUFFICES ASSUME NEW s \in Stores, NEW i \in 1..Len(commits[s]),
                      NEW j \in 1..Len(commits[s]), i <= j, Writer(s, i) # Boot
               PROVE  Writer(s, j) \notin before'[Writer(s, i)]
    BY <1>1 DEF WritesInOrder
  <2>1. Writer(s, i) \in Requests /\ post[Writer(s, i)].at # "new"
    BY <1>1 DEF LogInv, EntriesNamePosts
  <2>2. before'[Writer(s, i)] = before[Writer(s, i)]
    BY <1>1, <2>1
  <2> QED  BY <2>2 DEF LogInv, WritesInOrder
<1>6. EntriesStem'
  BY <1>1 DEF LogInv, EntriesStem, StemsFrom, Writer
<1>7. OnlyPostsSince'
  <2> SUFFICES ASSUME NEW r \in Requests, post'[r].at = "apply",
                      NEW i \in (post'[r].commit)..Len(commits[post'[r].store])
               PROVE  /\ Writer(post'[r].store, i) # Boot
                      /\ post'[Writer(post'[r].store, i)].at # "lost"
    BY <1>1 DEF OnlyPostsSince, Writer
  <2>1. /\ post[r].at = "apply" /\ post'[r].store = post[r].store
        /\ post'[r].commit = post[r].commit /\ boot' # "down"
    BY <1>1 DEF Stands, QuietLog
  <2>2. post[r].commit \in 1..Len(commits[post[r].store]) /\ post[r].store \in Stores
    BY <1>1, <2>1 DEF LogInv, RowsNamePosts
  <2>3. i \in 1..Len(commits[post[r].store])
    BY <1>1, <2>1, <2>2
  <2>4. /\ Writer(post[r].store, i) # Boot
        /\ post[Writer(post[r].store, i)].at # "lost"
    BY <2>1 DEF LogInv, OnlyPostsSince
  <2>5. Writer(post[r].store, i) \in Requests
    BY <1>1, <2>2, <2>3, <2>4
  <2> QED  BY <1>1, <2>1, <2>4, <2>5 DEF Stands
<1> QED  BY <1>2, <1>3, <1>4, <1>5, <1>6, <1>7 DEF LogInv

\* The log after a write of v by who: one more entry, the others as they were.
LEMMA WriteEffect ==
  ASSUME IndInv, NEW s \in Stores, NEW v \in Values(s), NEW who \in Requests \union {Boot},
         Commit(s, v, who)
  PROVE  /\ LogGrows
         /\ Len(commits[s]) \in Nat /\ Len(commits'[s]) = Len(commits[s]) + 1
         /\ commits'[s][Len(commits[s]) + 1].by = who
         /\ commits'[s][Len(commits[s]) + 1].value = v
         /\ \A t \in Stores : t # s => commits'[t] = commits[t]
<1>1. TypeOK /\ RowsAreLogged
  BY DEF IndInv
<1>2. LogGrows
  BY <1>1, CommitKeepsDb
<1>3. /\ Len(commits'[s]) = Len(commits[s]) + 1
      /\ commits'[s][Len(commits'[s])] = [by |-> who, value |-> v]
      /\ \A t \in Stores : t # s => commits'[t] = commits[t]
  <2>1. /\ Len(commits'[s]) = Len(commits[s]) + 1
        /\ commits'[s][Len(commits'[s])] = [by |-> who, value |-> v]
    BY <1>1, CommitEffect
  <2> QED  BY <1>1, <2>1 DEF Commit, TypeOK
<1>4. Len(commits[s]) \in Nat
  BY LogTypes
<1>5. commits'[s][Len(commits[s]) + 1] = [by |-> who, value |-> v]
  BY <1>3
<1> QED  BY <1>2, <1>3, <1>4, <1>5

\* The parts of the invariant a write can disturb only by its own entry.
LEMMA WriteKeepsEntries ==
  ASSUME IndInv, LogInv,
         NEW s \in Stores, NEW v \in Values(s), NEW who \in Requests \union {Boot},
         Commit(s, v, who), before' = before,
         \A q \in Requests \ {who} : post'[q] = post[q],
         who \in Requests =>
           /\ post[who].at = "save" /\ post[who].store = s /\ post[who].value = v
           /\ post'[who].at \in {"apply", "failed"}
           /\ post'[who].store = s /\ post'[who].value = v
           /\ post'[who].at = "apply" => post'[who].commit = Len(commits'[s])
  PROVE  EntriesNamePosts' /\ RowsNamePosts' /\ BeforeHaveEnded' /\ WritesInOrder'
<1> DEFINE n == Len(commits[s])
<1>1. /\ Boot \notin Requests
      /\ \A t \in Stores :
           /\ Len(commits[t]) \in Nat
           /\ \A i \in 1..Len(commits[t]) : Writer(t, i) \in Requests \union {Boot}
      /\ \A r \in Requests : post[r].store \in Stores /\ before[r] \subseteq Requests
  BY LogTypes
<1>2. /\ n \in Nat /\ Len(commits'[s]) = n + 1
      /\ commits'[s][n + 1].by = who /\ commits'[s][n + 1].value = v
      /\ \A t \in Stores : \A i \in 1..Len(commits[t]) : commits'[t][i] = commits[t][i]
      /\ \A t \in Stores : t # s => commits'[t] = commits[t]
  BY WriteEffect DEF LogGrows
<1> HIDE DEF n
<1>3. \A t \in Stores : \A i \in 1..Len(commits'[t]) :
        i \in 1..Len(commits[t]) \/ (t = s /\ i = n + 1)
  BY <1>1, <1>2 DEF n
<1>4. \A t \in Stores : \A i \in 1..Len(commits[t]) :
        Writer(t, i) # Boot =>
          /\ Writer(t, i) \in Requests \ {who}
          /\ post'[Writer(t, i)] = post[Writer(t, i)]
  BY <1>1 DEF LogInv, EntriesNamePosts
<1>5. EntriesNamePosts'
  <2> SUFFICES ASSUME NEW t \in Stores, NEW i \in 1..Len(commits'[t]),
                      commits'[t][i].by # Boot
               PROVE  LET q == commits'[t][i].by IN
                      /\ post'[q].store = t /\ post'[q].value = commits'[t][i].value
                      /\ post'[q].at \notin {"new", "save"}
                      /\ post'[q].at \in {"apply", "saved"} => post'[q].commit = i
    BY DEF EntriesNamePosts, Writer
  <2>1. CASE i \in 1..Len(commits[t])
    <3>1. commits'[t][i] = commits[t][i]
      BY <1>2, <2>1
    <3>2. Writer(t, i) # Boot
      BY <3>1 DEF Writer
    <3>3. post'[Writer(t, i)] = post[Writer(t, i)]
      BY <1>4, <2>1, <3>2
    <3>4. /\ post[Writer(t, i)].store = t /\ post[Writer(t, i)].value = commits[t][i].value
          /\ post[Writer(t, i)].at \notin {"new", "save"}
          /\ post[Writer(t, i)].at \in {"apply", "saved"} => post[Writer(t, i)].commit = i
      BY <2>1, <3>2 DEF LogInv, EntriesNamePosts
    <3> QED  BY <3>1, <3>3, <3>4 DEF Writer
  <2>2. CASE t = s /\ i = n + 1
    <3>1. who \in Requests
      BY <1>2, <2>2
    <3> QED  BY <1>2, <2>2, <3>1
  <2> QED  BY <1>3, <2>1, <2>2
<1>6. RowsNamePosts'
  <2> SUFFICES ASSUME NEW r \in Requests, post'[r].at \in {"apply", "saved"}
               PROVE  /\ post'[r].commit \in 1..Len(commits'[post'[r].store])
                      /\ commits'[post'[r].store][post'[r].commit].by = r
    BY DEF RowsNamePosts, Writer
  <2>1. CASE r = who
    BY <1>2, <2>1
  <2>2. CASE r # who
    <3>1. post'[r] = post[r] /\ post[r].store \in Stores
      BY <1>1, <2>2
    <3>2. /\ post[r].commit \in 1..Len(commits[post[r].store])
          /\ Writer(post[r].store, post[r].commit) = r
      BY <3>1 DEF LogInv, RowsNamePosts
    <3>3. Len(commits'[post[r].store]) >= Len(commits[post[r].store])
          /\ Len(commits'[post[r].store]) \in Nat
      BY <3>1, WriteEffect DEF LogGrows
    <3> QED  BY <1>1, <1>2, <3>1, <3>2, <3>3 DEF Writer
  <2> QED  BY <2>1, <2>2
<1>7. BeforeHaveEnded'
  BY <1>1 DEF LogInv, BeforeHaveEnded, Ended
<1>8. WritesInOrder'
  <2> SUFFICES ASSUME NEW t \in Stores, NEW i \in 1..Len(commits'[t]),
                      NEW j \in 1..Len(commits'[t]), i <= j, commits'[t][i].by # Boot
               PROVE  commits'[t][j].by \notin before[commits'[t][i].by]
    BY DEF WritesInOrder, Writer
  <2>1. CASE i \in 1..Len(commits[t]) /\ j \in 1..Len(commits[t])
    BY <1>2, <2>1 DEF LogInv, WritesInOrder, Writer
  <2>2. CASE i \in 1..Len(commits[t]) /\ t = s /\ j = n + 1
    <3>1. commits'[t][i].by \in Requests /\ commits'[t][j].by = who
      BY <1>1, <1>2, <2>2 DEF Writer
    <3>2. CASE who = Boot
      BY <1>1, <3>1, <3>2
    <3>3. CASE who \in Requests
      BY <3>1, <3>3 DEF LogInv, BeforeHaveEnded, Ended
    <3> QED  BY <3>2, <3>3
  <2>3. CASE t = s /\ i = n + 1
    <3>1. j = n + 1 /\ commits'[t][j].by = who /\ commits'[t][i].by = who /\ who \in Requests
      BY <1>2, <2>3
    <3> QED  BY <3>1 DEF LogInv, BeforeHaveEnded
  <2> QED  BY <1>3, <2>1, <2>2, <2>3
<1> QED  BY <1>5, <1>6, <1>7, <1>8

\* Entries that were there go back to where they went back to.
LEMMA OldEntriesStem ==
  ASSUME IndInv, LogInv, LogGrows, NEW t \in Stores, NEW i \in 1..Len(commits[t])
  PROVE  \/ \A j \in 1..i : Writer(t, j)' = Boot
         \/ \E k \in 1..i : StemsFrom(t, i, k)'
<1>1. Len(commits[t]) \in Nat
  BY LogTypes
<1>2. CASE \A j \in 1..i : Writer(t, j) = Boot
  BY <1>1, <1>2 DEF Writer, LogGrows
<1>3. CASE \E k \in 1..i : StemsFrom(t, i, k)
  BY <1>3, StemsStay
<1> QED  BY <1>2, <1>3 DEF LogInv, EntriesStem

LEMMA PostWritesKeepsLog ==
  ASSUME IndInv, LogInv, NEW r \in Requests, PostWrites(r)
  PROVE  LogInv'
<1> DEFINE s == post[r].store
           v == post[r].value
           n == Len(commits[s])
<1>1. /\ s \in Stores /\ v \in Values(s) /\ r \in Requests \union {Boot} /\ r # Boot
      /\ Commit(s, v, r)
  BY AdminAssumption DEF PostWrites, IndInv, TypeOK, Posts
<1>2. /\ post[r].at = "save" /\ before' = before
      /\ \A q \in Requests \ {r} : post'[q] = post[q]
      /\ post'[r].store = s /\ post'[r].value = v
      /\ post'[r].at \in {"apply", "failed"}
      /\ post'[r].at = "apply" => post'[r].commit = Len(commits'[s])
      /\ post[r].store = s /\ post[r].value = v
  BY DEF PostWrites
<1> HIDE DEF s, v
<1>3. EntriesNamePosts' /\ RowsNamePosts' /\ BeforeHaveEnded' /\ WritesInOrder'
  BY <1>1, <1>2, WriteKeepsEntries
<1>4. /\ LogGrows /\ n \in Nat /\ Len(commits'[s]) = n + 1
      /\ commits'[s][n + 1].by = r /\ commits'[s][n + 1].value = v
      /\ \A t \in Stores : t # s => commits'[t] = commits[t]
  BY <1>1, WriteEffect
<1> HIDE DEF n
<1>5. \A t \in Stores : \A i \in 1..Len(commits'[t]) :
        i \in 1..Len(commits[t]) \/ (t = s /\ i = n + 1)
  BY <1>4 DEF n, LogGrows
<1>6. EntriesStem'
  <2> SUFFICES ASSUME NEW t \in Stores, NEW i \in 1..Len(commits'[t])
               PROVE  \/ \A j \in 1..i : Writer(t, j)' = Boot
                      \/ \E k \in 1..i : StemsFrom(t, i, k)'
    BY DEF EntriesStem
  <2>1. CASE i \in 1..Len(commits[t])
    BY <1>4, <2>1, OldEntriesStem
  <2>2. CASE t = s /\ i = n + 1
    <3>1. StemsFrom(t, i, i)'
      BY <1>1, <1>4, <2>2 DEF StemsFrom, Writer
    <3> QED  BY <1>4, <2>2, <3>1
  <2> QED  BY <1>5, <2>1, <2>2
<1>7. OnlyPostsSince'
  <2> SUFFICES ASSUME NEW q \in Requests, post'[q].at = "apply",
                      NEW i \in (post'[q].commit)..Len(commits'[post'[q].store])
               PROVE  /\ commits'[post'[q].store][i].by # Boot
                      /\ post'[commits'[post'[q].store][i].by].at # "lost"
    BY DEF OnlyPostsSince, Writer
  <2>1. CASE q = r
    BY <1>1, <1>2, <1>4, <2>1
  <2>2. CASE q # r
    <3> DEFINE t == post[q].store
               c == post[q].commit
    <3>1. /\ post'[q] = post[q] /\ t \in Stores /\ Len(commits[t]) \in Nat
          /\ c \in 1..Len(commits[t])
      BY <1>2, <2>2, LogTypes DEF LogInv, RowsNamePosts
    <3>2. i \in c..Len(commits'[t])
      BY <3>1
    <3> HIDE DEF t, c
    <3>3. CASE i \in 1..Len(commits[t])
      <4>1. i \in c..Len(commits[t])
        BY <3>1, <3>2, <3>3
      <4>2. /\ Writer(t, i) # Boot /\ post[Writer(t, i)].at # "lost"
        BY <3>1, <4>1 DEF LogInv, OnlyPostsSince, t, c
      <4>3. Writer(t, i) \in Requests
        BY <3>1, <3>3, <4>2, LogTypes
      <4>4. post'[Writer(t, i)].at # "lost"
        BY <1>2, <4>2, <4>3
      <4>5. commits'[t][i] = commits[t][i]
        BY <1>4, <3>1, <3>3 DEF LogGrows
      <4> QED  BY <3>1, <4>2, <4>4, <4>5 DEF Writer, t
    <3>4. CASE t = s /\ i = n + 1
      BY <1>1, <1>2, <1>4, <3>1, <3>4 DEF t
    <3>5. i \in 1..Len(commits'[t])
      BY <1>4, <3>1, <3>2 DEF LogGrows
    <3> QED  BY <1>5, <3>1, <3>3, <3>4, <3>5
  <2> QED  BY <2>1, <2>2
<1> QED  BY <1>3, <1>6, <1>7 DEF LogInv

\* Completing twice is completing once.
LEMMA CompletedAgain ==
  ASSUME NEW v \in HeaderSets, Completed(v).mihomo = Empty, v.mihomo = Empty
  PROVE  Completed(v) = v
BY DEF Completed, HeaderSets

LEMMA StartWritesKeepsLog ==
  ASSUME IndInv, LogInv, NEW s \in Stores, NEW v \in Values(s), StartWrites(s, v)
  PROVE  LogInv'
<1>n. PICK n \in Nat : n = Len(commits[s])
  BY LogTypes
<1>0. /\ Commit(s, v, Boot) /\ MayStart(s, v) /\ boot # "serving" /\ post' = post
      /\ before' = before /\ Boot \notin Requests /\ Boot \in Requests \union {Boot}
  BY AdminAssumption DEF StartWrites
<1>1. EntriesNamePosts' /\ RowsNamePosts' /\ BeforeHaveEnded' /\ WritesInOrder'
  <2> DEFINE who == Boot
  <2>1. who \in Requests \union {Boot} /\ Commit(s, v, who) /\ who \notin Requests
    BY <1>0
  <2> HIDE DEF who
  <2> QED  BY <1>0, <2>1, WriteKeepsEntries
<1>2. /\ LogGrows /\ n \in Nat /\ Len(commits'[s]) = n + 1
      /\ commits'[s][n + 1].by = Boot /\ commits'[s][n + 1].value = v
  <2> DEFINE who == Boot
  <2>1. who \in Requests \union {Boot} /\ Commit(s, v, who)
    BY <1>0
  <2> HIDE DEF who
  <2>2. /\ LogGrows /\ n \in Nat /\ Len(commits'[s]) = n + 1
        /\ commits'[s][n + 1].by = who /\ commits'[s][n + 1].value = v
    BY <1>n, <2>1, WriteEffect
  <2> QED  BY <2>2 DEF who
<1>3. \A i \in 1..n : commits'[s][i] = commits[s][i]
  BY <1>n, <1>2 DEF LogGrows
<1>4. \A t \in Stores : t # s => commits'[t] = commits[t]
  BY <1>0 DEF Commit, IndInv, TypeOK
<1>5. OnlyPostsSince'
  BY <1>0 DEF OnlyPostsSince, IndInv, PostsAreLogged
<1> DEFINE Goal(t, i) == \/ \A j \in 1..i : Writer(t, j)' = Boot
                         \/ \E k \in 1..i : StemsFrom(t, i, k)'
<1>6. Goal(s, n + 1)
  <2>1. ASSUME OnlyStarts(s)
        PROVE  \A j \in 1..(n + 1) : Writer(s, j)' = Boot
    <3> SUFFICES ASSUME NEW j \in 1..(n + 1) PROVE commits'[s][j].by = Boot
      BY DEF Writer
    <3>1. CASE j \in 1..n
      BY <1>n, <1>3, <2>1, <3>1 DEF OnlyStarts, Writer
    <3>2. CASE j = n + 1
      BY <1>2, <3>2
    <3> QED  BY <1>2, <3>1, <3>2
  <2>2. CASE commits[s] = <<>>
    BY <1>n, <2>1, <2>2 DEF OnlyStarts
  <2>3. CASE /\ s = "headers" /\ disk[s] # None /\ disk[s].mihomo = Empty
             /\ v = Completed(disk[s])
    <3>1. n > 0 /\ n \in 1..n /\ disk[s] = commits[s][n].value
      BY <1>n, <1>2, <2>3 DEF IndInv, RowsAreLogged
    <3>2. CASE \A j \in 1..n : Writer(s, j) = Boot
      BY <1>n, <2>1, <3>2 DEF OnlyStarts
    <3>3. ASSUME NEW k \in 1..n, StemsFrom(s, n, k)
          PROVE  StemsFrom(s, n + 1, k)'
      <4> DEFINE u == commits[s][k].value
                 w == commits[s][n].value
      <4>1. /\ Writer(s, k) # Boot /\ \A j \in (k + 1)..n : Writer(s, j) = Boot
            /\ w = u \/ (u.mihomo = Empty /\ w = Completed(u))
        BY <3>3 DEF StemsFrom
      <4>2. u \in HeaderSets
        <5>1. commits[s] \in Seq([by : Requests \union {Boot}, value : Values(s)])
          BY DEF IndInv, TypeOK
        <5> DEFINE Write == [by : Requests \union {Boot}, value : Values(s)]
        <5>2. commits[s] \in Seq(Write) /\ k \in 1..Len(commits[s])
          BY <1>n, <5>1
        <5> HIDE DEF Write
        <5>3. commits[s][k] \in Write
          BY <5>2
        <5> QED  BY <2>3, <5>3, ValuesAreRows DEF Write
      <4>3. u.mihomo = Empty /\ v = Completed(u)
        <5>1. CASE w = u
          BY <2>3, <3>1, <5>1
        <5>2. CASE u.mihomo = Empty /\ w = Completed(u)
          BY <2>3, <3>1, <4>2, <5>2, CompletedAgain
        <5> QED  BY <4>1, <5>1, <5>2
      <4>4. /\ commits'[s][k].value = u /\ Writer(s, k)' # Boot
            /\ \A j \in (k + 1)..(n + 1) : commits'[s][j].by = Boot
        <5>1. commits'[s][k].value = u /\ Writer(s, k)' # Boot
          BY <1>2, <1>3, <4>1 DEF Writer
        <5>2. ASSUME NEW j \in (k + 1)..(n + 1)
              PROVE  commits'[s][j].by = Boot
          <6>1. CASE j = n + 1
            BY <1>2, <6>1
          <6>2. CASE j \in (k + 1)..n /\ j \in 1..n
            BY <1>3, <4>1, <6>2 DEF Writer
          <6> QED  BY <1>2, <6>1, <6>2
        <5> QED  BY <5>1, <5>2
      <4> HIDE DEF u
      <4> QED  BY <1>2, <2>3, <4>3, <4>4 DEF StemsFrom, Writer
    <3>4. \/ \A j \in 1..n : Writer(s, j) = Boot
          \/ \E k \in 1..n : StemsFrom(s, n, k)
      BY <1>n, <3>1 DEF LogInv, EntriesStem
    <3> QED  BY <1>2, <2>1, <3>2, <3>3, <3>4
  <2> QED  BY <1>0, <2>1, <2>2, <2>3 DEF MayStart
<1>7. EntriesStem'
  <2> SUFFICES ASSUME NEW t \in Stores, NEW i \in 1..Len(commits'[t])
               PROVE  Goal(t, i)
    BY DEF EntriesStem
  <2>1. CASE i \in 1..Len(commits[t])
    BY <1>2, <2>1, OldEntriesStem
  <2>2. CASE i \notin 1..Len(commits[t])
    <3>1. t = s /\ i = n + 1
      BY <1>n, <1>2, <1>4, <2>2
    <3> QED  BY <1>6, <3>1
  <2> QED  BY <2>1, <2>2
<1> QED  BY <1>1, <1>5, <1>7 DEF LogInv

\* While main() starts no POST is served, so a step that writes no row is quiet.
LEMMA QuietStart ==
  ASSUME IndInv, boot # "serving", UNCHANGED <<post, before, commits>>
  PROVE  QuietLog
BY DEF QuietLog, Stands, IndInv, PostsAreLogged

LEMMA QuietCrash ==
  ASSUME IndInv, Crash
  PROVE  QuietLog
<1>1. /\ boot' = "down" /\ before' = before /\ commits' = commits
      /\ post \in [Requests -> Posts]
      /\ post' = [r \in Requests |->
                   IF post[r].at \in {"save", "apply"} THEN [post[r] EXCEPT !.at = "lost"]
                   ELSE post[r]]
  BY DEF Crash, Exit, Go, NoWrite, IndInv, TypeOK
<1>2. ASSUME NEW q \in Requests
      PROVE  Stands(q) /\ post'[q].at # "apply"
  <2>1. post[q] \in Posts
    BY <1>1
  <2>2. CASE post[q].at \in {"save", "apply"}
    <3>1. /\ post'[q].at = "lost" /\ post'[q].store = post[q].store
          /\ post'[q].value = post[q].value
      BY <1>1, <2>1, <2>2 DEF Posts
    <3> QED  BY <1>1, <2>2, <3>1 DEF Stands, Ended
  <2>3. CASE post[q].at \notin {"save", "apply"}
    <3>1. post'[q] = post[q]
      BY <1>1, <2>3
    <3> QED  BY <2>3, <3>1 DEF Stands, Ended
  <2> QED  BY <2>2, <2>3
<1> QED  BY <1>1, <1>2 DEF QuietLog

LEMMA QuietPost ==
  ASSUME IndInv, NEW r \in Requests, NEW s \in Stores, NEW v \in Values(s), Post(r, s, v)
  PROVE  QuietLog
<1>1. /\ boot' = "serving" /\ commits' = commits /\ post[r].at = "new"
      /\ post'[r].at \in {"save", "failed"}
      /\ \A q \in Requests \ {r} : post'[q] = post[q] /\ before'[q] = before[q]
      /\ before'[r] = {q \in Requests : post[q].at \in Ended}
  BY DEF Post, IndInv, TypeOK
<1>2. ASSUME NEW q \in Requests
      PROVE  /\ Stands(q)
             /\ \/ before'[q] = before[q]
                \/ post[q].at = "new" /\ \A p \in before'[q] : p # q /\ post[p].at \in Ended
  BY <1>1 DEF Stands, Ended
<1> QED  BY <1>1, <1>2 DEF QuietLog

LEMMA QuietApply ==
  ASSUME IndInv, NEW r \in Requests, Apply(r)
  PROVE  /\ QuietLog
         /\ post'[r].at = "saved" /\ post'[r].store = post[r].store
         /\ post'[r].commit = post[r].commit
         /\ \A q \in Requests \ {r} : post'[q] = post[q]
<1>1. /\ post[r].at = "apply" /\ boot = "serving"
      /\ boot' = boot /\ commits' = commits /\ before' = before
      /\ post'[r].at = "saved" /\ post'[r].store = post[r].store
      /\ post'[r].value = post[r].value /\ post'[r].commit = post[r].commit
      /\ \A q \in Requests \ {r} : post'[q] = post[q]
  BY DEF Apply, NoWrite, IndInv, TypeOK, PostsAreLogged, Posts
<1>2. ASSUME NEW q \in Requests
      PROVE  Stands(q)
  BY <1>1 DEF Stands, Ended
<1> QED  BY <1>1, <1>2 DEF QuietLog

LEMMA SavingWrites ==
  ASSUME IndInv, NEW r \in Requests, SaveRow(r)
  PROVE  PostWrites(r)
BY DEF SaveRow, Save, PostWrites, IndInv, TypeOK, PostsAreLogged, Posts

\* The write of a POST that is answered with an error has happened or has not.
LEMMA FailingWrites ==
  ASSUME IndInv, NEW r \in Requests, SaveRowFails(r)
  PROVE  \/ PostWrites(r)
         \/ QuietLog
<1>1. /\ post[r].at = "save" /\ boot = "serving" /\ boot' = boot /\ before' = before
      /\ post'[r].at = "failed" /\ post'[r].store = post[r].store
      /\ post'[r].value = post[r].value
      /\ \A q \in Requests \ {r} : post'[q] = post[q]
  BY DEF SaveRowFails, IndInv, TypeOK, PostsAreLogged, Posts
<1>2. CASE Commit(post[r].store, post[r].value, r)
  BY <1>1, <1>2 DEF PostWrites
<1>3. CASE commits' = commits
  <2>1. ASSUME NEW q \in Requests
        PROVE  Stands(q)
    BY <1>1 DEF Stands, Ended
  <2> QED  BY <1>1, <1>3, <2>1 DEF QuietLog
<1> QED  BY <1>2, <1>3 DEF SaveRowFails, SaveFails

\* A row that a start imports or completes may be written by a start.
LEMMA CompletionMayStart ==
  ASSUME IndInv, StartsLoadNewest, boot = "ensure", served["headers"].mihomo = Empty
  PROVE  MayStart("headers", Completed(served["headers"]))
<1>1. \/ disk["headers"] = None
      \/ disk["headers"] # None /\ served["headers"] = disk["headers"]
      \/ OnlyStarts("headers")
  BY DEF StartsLoadNewest
<1>2. disk["headers"] = None => commits["headers"] = <<>>
  BY DEF IndInv, RowsAreLogged, Stores
<1> QED  BY <1>1, <1>2 DEF MayStart

\* Every step is one of three kinds.
LEMMA KindsOfSteps ==
  ASSUME IndInv, StartsLoadNewest, [Next]_vars
  PROVE  \/ QuietLog
         \/ \E s \in Stores : \E v \in Values(s) : StartWrites(s, v)
         \/ \E r \in Requests : PostWrites(r)
<1> DEFINE Starts == \E s \in Stores : \E v \in Values(s) : StartWrites(s, v)
<1>1. /\ "templates" \in Stores /\ "headers" \in Stores /\ TypeOK
      /\ Values("templates") = Libraries /\ Values("headers") = HeaderSets
      /\ \A s \in Stores : disk[s] = None => commits[s] = <<>>
  BY ValuesAreRows DEF Stores, IndInv, RowsAreLogged
<1>2. CASE BootstrapConfigs \/ BootstrapConfigsFails
  <2>1. boot # "serving" /\ UNCHANGED <<post, before>>
    BY <1>2 DEF BootstrapConfigs, BootstrapConfigsFails, At
  <2>2. CASE commits' = commits
    BY <2>1, <2>2, QuietStart
  <2>3. CASE /\ disk["templates"] = None /\ file.templates # Bad
             /\ Commit("templates", file.templates, Boot)
    <3>1. file.templates \in Libraries
      BY <1>1, <2>3 DEF TypeOK
    <3>2. StartWrites("templates", file.templates)
      BY <1>1, <2>1, <2>3 DEF StartWrites, MayStart
    <3> QED  BY <1>1, <3>1, <3>2
  <2> QED  BY <1>2, <2>2, <2>3 DEF BootstrapConfigs, BootstrapConfigsFails, NoWrite, Save, SaveFails
<1>3. CASE BootstrapHeaders \/ BootstrapHeadersFails
  <2>1. boot # "serving" /\ UNCHANGED <<post, before>>
    BY <1>3 DEF BootstrapHeaders, BootstrapHeadersFails, At
  <2>2. CASE commits' = commits
    BY <2>1, <2>2, QuietStart
  <2>3. CASE /\ disk["headers"] = None /\ file.headers # Bad
             /\ Commit("headers", Imported, Boot)
    <3>1. Imported \in HeaderSets
      BY <1>1, <2>3, ImportedType
    <3>2. StartWrites("headers", Imported)
      BY <1>1, <2>1, <2>3 DEF StartWrites, MayStart
    <3> QED  BY <1>1, <3>1, <3>2
  <2> QED  BY <1>3, <2>2, <2>3 DEF BootstrapHeaders, BootstrapHeadersFails, NoWrite, SaveHeaders,
       Save, SaveFails
<1>4. CASE EnsureMihomoOverrides \/ EnsureMihomoOverridesFails
  <2>1. boot = "ensure" /\ UNCHANGED <<post, before>>
    BY <1>4 DEF EnsureMihomoOverrides, EnsureMihomoOverridesFails, At
  <2>2. CASE commits' = commits
    BY <2>1, <2>2, QuietStart
  <2>3. CASE /\ served["headers"].mihomo = Empty
             /\ Commit("headers", Completed(served["headers"]), Boot)
    <3>1. Completed(served["headers"]) \in HeaderSets
      BY <2>1, CompletedType DEF IndInv, CopiesAreLogged
    <3>2. StartWrites("headers", Completed(served["headers"]))
      BY <2>1, <2>3, CompletionMayStart DEF StartWrites
    <3> QED  BY <1>1, <3>1, <3>2
  <2> QED  BY <1>4, <2>2, <2>3 DEF EnsureMihomoOverrides, EnsureMihomoOverridesFails, NoWrite,
       SaveHeaders, Save, SaveFails
<1>5. CASE \/ Start \/ LoadTemplateSet \/ LoadTemplateSetFails \/ LoadHeaderStore
           \/ LoadHeaderStoreFails
  BY <1>5, QuietStart DEF Start, LoadTemplateSet, LoadTemplateSetFails, LoadHeaderStore,
     LoadHeaderStoreFails, NoWrite, At
<1>6. CASE Crash
  BY <1>6, QuietCrash
<1>7. ASSUME NEW r \in Requests, NEW s \in Stores, NEW v \in Values(s), Post(r, s, v)
      PROVE  QuietLog
  BY <1>7, QuietPost
<1>8. ASSUME NEW r \in Requests, PostStep(r) \/ SaveRowFails(r)
      PROVE  QuietLog \/ PostWrites(r)
  BY <1>8, QuietApply, SavingWrites, FailingWrites DEF PostStep
<1>9. CASE UNCHANGED vars
  BY <1>9 DEF vars, QuietLog, Stands, IndInv, PostsAreLogged
<1> QED  BY <1>2, <1>3, <1>4, <1>5, <1>6, <1>7, <1>8, <1>9 DEF Next, BootStep, BootFault

\* No step leads out of what is known of the log.
LEMMA NextKeepsLog ==
  ASSUME IndInv, LogInv, StartsLoadNewest, [Next]_vars
  PROVE  LogInv'
<1>1. IndInv'
  BY NextKeepsInv
<1>2. ASSUME NEW s \in Stores, NEW v \in Values(s), StartWrites(s, v)
      PROVE  LogInv'
  BY <1>2, StartWritesKeepsLog
<1>3. ASSUME NEW r \in Requests, PostWrites(r)
      PROVE  LogInv'
  BY <1>3, PostWritesKeepsLog
<1> QED  BY <1>1, <1>2, <1>3, QuietLogKeepsLog, KindsOfSteps

-----------------------------------------------------------------------------
(* The copies.  A start loads the newest row, which goes back to a POST that *)
(* no acknowledged one came after; a POST sets a copy to its own row.        *)

\* The newest row is as new as a copy has to be.
NewestIsNew(s) ==
  \A r \in Requests :
    post[r].at = "saved" /\ post[r].store = s =>
      \E k \in 1..Len(commits[s]) :
        StemsFrom(s, Len(commits[s]), k) /\ Writer(s, k) \notin before[r]

NewestAreNew == \A s \in Stores : NewestIsNew(s)

LEMMA NewestRowsAreNew == IndInv /\ LogInv => NewestAreNew
<1> SUFFICES ASSUME IndInv, LogInv, NEW s \in Stores, NEW r \in Requests,
                    post[r].at = "saved", post[r].store = s
             PROVE  \E k \in 1..Len(commits[s]) :
                      StemsFrom(s, Len(commits[s]), k) /\ Writer(s, k) \notin before[r]
  BY DEF NewestAreNew, NewestIsNew
<1>1. PICK n \in Nat : n = Len(commits[s])
  BY LogTypes
<1>2. PICK p \in 1..n : Writer(s, p) = r
  BY <1>1 DEF LogInv, RowsNamePosts
<1>3. Boot \notin Requests
  BY LogTypes
<1>4. n \in 1..n /\ ~ \A j \in 1..n : Writer(s, j) = Boot
  BY <1>2, <1>3
<1>5. PICK k \in 1..n : StemsFrom(s, n, k)
  BY <1>1, <1>4 DEF LogInv, EntriesStem
<1>6. p <= k
  <2>1. \A j \in (k + 1)..n : Writer(s, j) = Boot
    BY <1>5 DEF StemsFrom
  <2> QED  BY <1>2, <1>3, <2>1
<1>7. Writer(s, k) \notin before[Writer(s, p)]
  BY <1>1, <1>2, <1>3, <1>6 DEF LogInv, WritesInOrder
<1> QED  BY <1>1, <1>2, <1>5, <1>7

\* No POST is acknowledged by the step.
SavedStay ==
  \A r \in Requests :
    post'[r].at = "saved" =>
      /\ post[r].at = "saved" /\ post'[r].store = post[r].store
      /\ post'[r].commit = post[r].commit /\ before'[r] = before[r]

LEMMA KeptCopyIsNew ==
  ASSUME IndInv, LogGrows, SavedStay, CopiesAreNew, NEW s \in Stores,
         served'[s] = served[s], servedAt'[s] = servedAt[s]
  PROVE  CopyIsNew(s)' /\ servedAt'[s] <= Len(commits'[s])
<1>1. PICK n \in Nat : n = servedAt[s] /\ n <= Len(commits[s])
  BY DEF IndInv, TypeOK, CopiesAreNew
<1>2. Len(commits[s]) \in Nat /\ Len(commits'[s]) >= Len(commits[s]) /\ Len(commits'[s]) \in Nat
  BY DEF LogGrows
<1>3. ASSUME NEW r \in Requests, served'[s] # None, post'[r].at = "saved", post'[r].store = s
      PROVE  \E k \in 1..servedAt'[s] :
               StemsFrom(s, servedAt[s], k)' /\ Writer(s, k)' \notin before'[r]
  <2>1. PICK k \in 1..n : StemsFrom(s, n, k) /\ Writer(s, k) \notin before[r]
    BY <1>1, <1>3 DEF SavedStay, CopiesAreNew, CopyIsNew
  <2>2. n \in 1..Len(commits[s]) /\ k \in 1..Len(commits[s])
    BY <1>1, <1>2
  <2>3. StemsFrom(s, n, k)'
    BY <2>1, <2>2, StemsStay
  <2>4. Writer(s, k)' \notin before'[r]
    BY <1>3, <2>1, <2>2 DEF LogGrows, Writer, SavedStay
  <2>5. servedAt'[s] = n
    BY <1>1
  <2> QED  BY <2>1, <2>3, <2>4, <2>5 DEF StemsFrom
<1> QED  BY <1>1, <1>2, <1>3 DEF CopyIsNew

LEMMA KeptCopiesAreNew ==
  ASSUME IndInv, LogGrows, SavedStay, CopiesAreNew, KeepCopies
  PROVE  CopiesAreNew'
BY KeptCopyIsNew DEF CopiesAreNew, KeepCopies

LEMMA LoadedCopyIsNew ==
  ASSUME IndInv', LogInv', NEW s \in Stores, servedAt'[s] = Len(commits'[s])
  PROVE  CopyIsNew(s)' /\ servedAt'[s] <= Len(commits'[s])
<1>0. NewestAreNew'
  BY NewestRowsAreNew, PTL
<1>1. NewestIsNew(s)'
  BY <1>0 DEF NewestAreNew
<1>2. Len(commits'[s]) \in Nat
  <2>1. servedAt'[s] \in Nat
    BY DEF IndInv, TypeOK
  <2> QED  BY <2>1
<1> QED  BY <1>1, <1>2 DEF NewestIsNew, CopyIsNew

\* Kinds of steps and what they leave of the acknowledged POSTs.
LEMMA StartingKeepsSaved ==
  ASSUME UNCHANGED <<post, before>>
  PROVE  SavedStay
BY DEF SavedStay

\* A process that stops has no copies.
LEMMA ExitKeepsCopies ==
  ASSUME IndInv', Exit
  PROVE  CopiesInv'
<1>1. /\ boot' = "down" /\ \A s \in Stores : served'[s] = None /\ servedAt'[s] = 0
      /\ \A s \in Stores : commits'[s] \in Seq([by : Requests \union {Boot}, value : Values(s)])
  BY DEF Exit, Go, IndInv, TypeOK
<1>2. \A s \in Stores : Len(commits'[s]) >= 0
  <2> SUFFICES ASSUME NEW s \in Stores PROVE Len(commits'[s]) \in Nat
    OBVIOUS
  <2> QED  BY <1>1
<1>3. CopiesAreNew'
  BY <1>1, <1>2 DEF CopiesAreNew, CopyIsNew
<1> QED  BY <1>1, <1>3 DEF CopiesInv, StartsLoadNewest, RacesAreNamed

\* The first steps of main(), which have no copy to load yet.
LEMMA EarlyStepKeepsCopies ==
  ASSUME IndInv, IndInv', CopiesInv, LogGrows, KeepCopies, UNCHANGED <<post, before>>,
         boot' \in {"templates", "load"}
  PROVE  CopiesInv'
<1>1. CopiesAreNew'
  BY StartingKeepsSaved, KeptCopiesAreNew DEF CopiesInv
<1> QED  BY <1>1 DEF CopiesInv, StartsLoadNewest, RacesAreNamed

LEMMA LoadTemplateSetKeepsCopies ==
  ASSUME IndInv, IndInv', LogInv', CopiesInv, LoadTemplateSet
  PROVE  CopiesInv'
<1>1. /\ boot' = "headers" /\ UNCHANGED <<post, before, commits>> /\ NoWrite
      /\ servedAt'["templates"] = Len(commits'["templates"])
      /\ served'["headers"] = served["headers"]
      /\ servedAt'["headers"] = servedAt["headers"]
  BY DEF LoadTemplateSet, At, Go, NoWrite, Serve, IndInv, TypeOK, Stores
<1>2. LogGrows /\ SavedStay
  BY <1>1, NoWriteKeepsDb, StartingKeepsSaved DEF IndInv
<1>3. CopyIsNew("templates")' /\ servedAt'["templates"] <= Len(commits'["templates"])
  BY <1>1, LoadedCopyIsNew DEF Stores
<1>4. CopyIsNew("headers")' /\ servedAt'["headers"] <= Len(commits'["headers"])
  BY <1>1, <1>2, KeptCopyIsNew DEF Stores, CopiesInv
<1>5. CopiesAreNew'
  BY <1>3, <1>4 DEF CopiesAreNew, Stores
<1> QED  BY <1>1, <1>5 DEF CopiesInv, StartsLoadNewest, RacesAreNamed, IsNewest

LEMMA LoadHeaderStoreKeepsCopies ==
  ASSUME IndInv, IndInv', LogInv', CopiesInv, LoadHeaderStore
  PROVE  CopiesInv'
<1>1. /\ boot = "headers" /\ boot' = "import"
      /\ UNCHANGED <<post, before, commits, disk>> /\ NoWrite
      /\ served'["headers"] = IF disk["headers"] = None THEN NoOverrides ELSE disk["headers"]
      /\ servedAt'["headers"] = Len(commits'["headers"])
      /\ served'["templates"] = served["templates"]
      /\ servedAt'["templates"] = servedAt["templates"]
  BY DEF LoadHeaderStore, At, Go, NoWrite, Serve, IndInv, TypeOK, Stores
<1>2. LogGrows /\ SavedStay
  BY <1>1, NoWriteKeepsDb, StartingKeepsSaved DEF IndInv
<1>3. CopyIsNew("headers")' /\ servedAt'["headers"] <= Len(commits'["headers"])
  BY <1>1, LoadedCopyIsNew DEF Stores
<1>4. CopyIsNew("templates")' /\ servedAt'["templates"] <= Len(commits'["templates"])
  BY <1>1, <1>2, KeptCopyIsNew DEF Stores, CopiesInv
<1>5. CopiesAreNew'
  BY <1>3, <1>4 DEF CopiesAreNew, Stores
<1> QED  BY <1>1, <1>5 DEF CopiesInv, StartsLoadNewest, RacesAreNamed, IsNewest

\* When the listener is reached every copy there is is the newest row.
LEMMA NewestAtListener ==
  ASSUME IndInv', LogInv', CopiesAreNew', boot' = "serving",
         \A s \in Stores : served'[s] # None => servedAt'[s] = Len(commits'[s])
  PROVE  CopiesInv'
<1>1. ASSUME NEW s \in Stores, served'[s] # None,
             NEW r \in Requests, post'[r].at = "saved", post'[r].store = s
      PROVE  ~(servedAt'[s] < post'[r].commit)
  BY <1>1 DEF LogInv, RowsNamePosts
<1>2. RacesAreNamed'
  BY <1>1 DEF RacesAreNamed, RaceIsNamed, IsNewest
<1> QED  BY <1>2 DEF CopiesInv, StartsLoadNewest

LEMMA LoadHeaderStoreFailsKeepsCopies ==
  ASSUME IndInv, IndInv', LogInv', CopiesInv, LoadHeaderStoreFails
  PROVE  CopiesInv'
<1>1. /\ boot = "headers" /\ boot' = "serving" /\ KeepCopies /\ NoWrite
      /\ UNCHANGED <<post, before, commits>>
  BY DEF LoadHeaderStoreFails, At, Go, NoWrite
<1>2. LogGrows /\ SavedStay
  BY <1>1, NoWriteKeepsDb, StartingKeepsSaved DEF IndInv
<1>3. CopiesAreNew'
  BY <1>1, <1>2, KeptCopiesAreNew DEF CopiesInv
<1>4. served["headers"] = None /\ servedAt["templates"] = Len(commits["templates"])
  BY <1>1 DEF IndInv, CopiesAreLogged, CopiesInv, StartsLoadNewest, IsNewest
<1> QED  BY <1>1, <1>3, <1>4, NewestAtListener DEF KeepCopies, Stores

\* SaveSet while main() starts: the copy is the newest row.
LEMMA SavedHeadersAreNew ==
  ASSUME IndInv, IndInv', LogInv', CopiesInv, UNCHANGED <<post, before>>,
         boot \in {"import", "ensure"}, NEW v \in HeaderSets, SaveHeaders(v)
  PROVE  /\ CopiesAreNew'
         /\ \A s \in Stores : servedAt'[s] = Len(commits'[s])
         /\ served'["headers"] = disk'["headers"]
<1>1. /\ Commit("headers", v, Boot) /\ "headers" \in Stores /\ "templates" \in Stores
      /\ v \in Values("headers")
      /\ served'["headers"] = v /\ disk'["headers"] = v
      /\ servedAt'["headers"] = Len(commits'["headers"])
      /\ served'["templates"] = served["templates"]
      /\ servedAt'["templates"] = servedAt["templates"]
      /\ commits'["templates"] = commits["templates"]
  BY ValuesAreRows DEF SaveHeaders, Save, Commit, Serve, IndInv, TypeOK, Stores
<1>2. LogGrows /\ SavedStay
  <2> DEFINE who == Boot
  <2>1. who \in Requests \union {Boot} /\ Commit("headers", v, who)
    BY <1>1
  <2> HIDE DEF who
  <2> QED  BY <1>1, <2>1, CommitKeepsDb, StartingKeepsSaved DEF IndInv
<1>3. CopyIsNew("headers")' /\ servedAt'["headers"] <= Len(commits'["headers"])
  BY <1>1, LoadedCopyIsNew
<1>4. CopyIsNew("templates")' /\ servedAt'["templates"] <= Len(commits'["templates"])
  BY <1>1, <1>2, KeptCopyIsNew DEF CopiesInv
<1>5. servedAt["templates"] = Len(commits["templates"])
  BY DEF CopiesInv, StartsLoadNewest, IsNewest
<1> QED  BY <1>1, <1>3, <1>4, <1>5 DEF CopiesAreNew, Stores

\* The import leaves the newest row in the copy; where it failed after its
\* commit the row is a start's and the copy empty.
LEMMA BootstrapHeadersKeepsCopies ==
  ASSUME IndInv, IndInv', LogInv', CopiesInv, BootstrapHeaders
  PROVE  CopiesInv'
<1>1. boot = "import" /\ boot' = "ensure" /\ UNCHANGED <<file, post, before>>
  BY DEF BootstrapHeaders, At, Go
<1>2. CASE NoWrite /\ KeepCopies
  <2>1. LogGrows /\ SavedStay
    BY <1>1, <1>2, NoWriteKeepsDb, StartingKeepsSaved DEF IndInv
  <2>2. CopiesAreNew'
    BY <1>2, <2>1, KeptCopiesAreNew DEF CopiesInv
  <2> QED  BY <1>1, <1>2, <2>2 DEF CopiesInv, StartsLoadNewest, RacesAreNamed, IsNewest,
       NoWrite, KeepCopies
<1>3. CASE file.headers # Bad /\ SaveHeaders(Imported)
  <2>1. Imported \in HeaderSets
    BY <1>3, ImportedType DEF IndInv
  <2>2. /\ CopiesAreNew'
        /\ \A s \in Stores : servedAt'[s] = Len(commits'[s])
        /\ served'["headers"] = disk'["headers"]
    BY <1>1, <1>3, <2>1, SavedHeadersAreNew
  <2> QED  BY <1>1, <2>2 DEF CopiesInv, StartsLoadNewest, RacesAreNamed, IsNewest, Stores
<1> QED  BY <1>2, <1>3 DEF BootstrapHeaders

LEMMA BootstrapHeadersFailsKeepsCopies ==
  ASSUME IndInv, IndInv', LogInv', CopiesInv, BootstrapHeadersFails
  PROVE  CopiesInv'
<1>1. /\ boot = "import" /\ boot' = "ensure" /\ UNCHANGED <<file, post, before>>
      /\ KeepCopies /\ TypeOK /\ RowsAreLogged /\ "headers" \in Stores /\ "templates" \in Stores
  BY DEF BootstrapHeadersFails, At, Go, IndInv, Stores
<1>2. CASE NoWrite
  <2>1. LogGrows /\ SavedStay
    BY <1>1, <1>2, NoWriteKeepsDb, StartingKeepsSaved
  <2>2. CopiesAreNew'
    BY <1>1, <2>1, KeptCopiesAreNew DEF CopiesInv
  <2> QED  BY <1>1, <1>2, <2>2 DEF CopiesInv, StartsLoadNewest, RacesAreNamed, IsNewest,
       NoWrite, KeepCopies
<1>3. CASE /\ disk["headers"] = None /\ file.headers # Bad
           /\ Commit("headers", Imported, Boot)
  <2> DEFINE who == Boot
             v == Imported
  <2>1. /\ who \in Requests \union {Boot} /\ v \in Values("headers")
        /\ Commit("headers", v, who)
    BY <1>1, <1>3, ImportedType, ValuesAreRows
  <2> HIDE DEF who, v
  <2>2. LogGrows /\ SavedStay
    BY <1>1, <2>1, CommitKeepsDb, StartingKeepsSaved
  <2>3. CopiesAreNew'
    BY <1>1, <2>2, KeptCopiesAreNew DEF CopiesInv
  <2>4. commits["headers"] = <<>> /\ commits'["templates"] = commits["templates"]
    BY <1>1, <1>3 DEF RowsAreLogged, Commit, TypeOK
  <2>5. /\ Len(commits'["headers"]) = Len(commits["headers"]) + 1
        /\ commits'["headers"][Len(commits["headers"]) + 1].by = Boot
    BY <1>1, <2>1, WriteEffect DEF who
  <2>6. OnlyStarts("headers")'
    BY <2>4, <2>5 DEF OnlyStarts, Writer
  <2>7. served["headers"] = NoOverrides
    <3>1. /\ served["headers"] = NoOverrides \/ IsLogged("headers")
      BY <1>1 DEF IndInv, CopiesAreLogged
    <3> QED  BY <2>4, <3>1 DEF IsLogged
  <2> QED  BY <1>1, <2>3, <2>4, <2>6, <2>7 DEF CopiesInv, StartsLoadNewest, RacesAreNamed,
       IsNewest, KeepCopies
<1> QED  BY <1>2, <1>3 DEF BootstrapHeadersFails, SaveFails, NoWrite

LEMMA EnsureMihomoOverridesKeepsCopies ==
  ASSUME IndInv, IndInv', LogInv', CopiesInv, EnsureMihomoOverrides
  PROVE  CopiesInv'
<1>1. boot = "ensure" /\ boot' = "serving" /\ UNCHANGED <<post, before>>
  BY DEF EnsureMihomoOverrides, At, Go
<1>2. CASE served["headers"].mihomo # Empty /\ NoWrite /\ KeepCopies
  <2>1. LogGrows /\ SavedStay
    BY <1>1, <1>2, NoWriteKeepsDb, StartingKeepsSaved DEF IndInv
  <2>2. CopiesAreNew'
    BY <1>2, <2>1, KeptCopiesAreNew DEF CopiesInv
  <2>3. \A s \in Stores : servedAt[s] = Len(commits[s])
    BY <1>1, <1>2, ValuesAreRows DEF CopiesInv, StartsLoadNewest, IsNewest, Stores
  <2> QED  BY <1>1, <1>2, <2>2, <2>3, NewestAtListener DEF NoWrite, KeepCopies
<1>3. CASE SaveHeaders(Completed(served["headers"]))
  <2>1. Completed(served["headers"]) \in HeaderSets
    BY <1>1, CompletedType DEF IndInv, CopiesAreLogged
  <2> DEFINE v == Completed(served["headers"])
  <2>2. v \in HeaderSets /\ SaveHeaders(v)
    BY <1>3, <2>1
  <2> HIDE DEF v
  <2>3. CopiesAreNew' /\ \A s \in Stores : servedAt'[s] = Len(commits'[s])
    BY <1>1, <2>2, SavedHeadersAreNew
  <2> QED  BY <1>1, <2>3, NewestAtListener
<1> QED  BY <1>2, <1>3 DEF EnsureMihomoOverrides

-----------------------------------------------------------------------------
(* The copies and the POSTs.                                                *)

\* A step of a POST that writes no row and sets no copy.
LEMMA QuietPostKeepsCopies ==
  ASSUME IndInv, IndInv', CopiesInv, QuietLog, SavedStay, KeepCopies,
         boot = "serving", boot' = "serving", disk' = disk
  PROVE  CopiesInv'
<1>1. commits' = commits /\ \A q \in Requests : Stands(q)
  BY DEF QuietLog
<1>2. LogGrows
  BY <1>1, NoWriteKeepsDb DEF IndInv, NoWrite
<1>3. CopiesAreNew'
  BY <1>2, KeptCopiesAreNew DEF CopiesInv
<1>4. ASSUME NEW s \in Stores
      PROVE  RaceIsNamed(s)'
  <2> SUFFICES ASSUME served[s] # None
               PROVE  RaceIsNamed(s)'
    BY DEF RaceIsNamed, KeepCopies
  <2>1. IsLogged(s) /\ RaceIsNamed(s)
    BY DEF CopiesInv, RacesAreNamed, IndInv, CopiesAreLogged, Stores
  <2>2. Len(commits[s]) \in 1..Len(commits[s])
    BY <2>1, LogTypes DEF IsLogged
  <2>3. Writer(s, Len(commits[s])) \in Requests \union {Boot}
    BY <2>2, LogTypes
  <2> QED  BY <1>1, <2>1, <2>3 DEF RaceIsNamed, IsNewest, Writer, KeepCopies, Stands, SavedStay
<1> QED  BY <1>3, <1>4 DEF CopiesInv, RacesAreNamed, StartsLoadNewest

LEMMA PostWritesKeepsCopies ==
  ASSUME IndInv, IndInv', CopiesInv, NEW r \in Requests, PostWrites(r), KeepCopies,
         boot' = "serving"
  PROVE  CopiesInv'
<1> DEFINE s == post[r].store
           v == post[r].value
<1>1. /\ s \in Stores /\ v \in Values(s) /\ r \in Requests \union {Boot} /\ r # Boot
      /\ Commit(s, v, r) /\ boot = "serving" /\ before' = before
      /\ post'[r].at \in {"apply", "failed"}
      /\ \A q \in Requests \ {r} : post'[q] = post[q]
  BY AdminAssumption DEF PostWrites, IndInv, TypeOK, Posts
<1> HIDE DEF s, v
<1>2. /\ LogGrows /\ Len(commits[s]) \in Nat /\ Len(commits'[s]) = Len(commits[s]) + 1
      /\ commits'[s][Len(commits[s]) + 1].by = r
      /\ \A t \in Stores : t # s => commits'[t] = commits[t]
  BY <1>1, WriteEffect
<1>3. SavedStay
  BY <1>1 DEF SavedStay
<1>4. CopiesAreNew'
  BY <1>2, <1>3, KeptCopiesAreNew DEF CopiesInv
<1>5. ASSUME NEW t \in Stores
      PROVE  RaceIsNamed(t)'
  <2> SUFFICES ASSUME served[t] # None
               PROVE  RaceIsNamed(t)'
    BY DEF RaceIsNamed, KeepCopies
  <2>1. IsLogged(t) /\ RaceIsNamed(t)
    BY <1>1 DEF CopiesInv, RacesAreNamed, IndInv, CopiesAreLogged, Stores
  <2>2. Len(commits[t]) \in 1..Len(commits[t])
    BY <2>1, LogTypes DEF IsLogged
  <2>3. Writer(t, servedAt[t])' = Writer(t, servedAt[t])
    BY <1>2, <2>1 DEF LogGrows, IsLogged, Writer, KeepCopies
  <2>4. \A q \in Requests :
          post'[q].at = "saved" /\ post'[q].store = t /\ servedAt'[t] < post'[q].commit =>
            Writer(t, servedAt[t])' # Boot
    BY <1>3, <2>1, <2>3 DEF SavedStay, RaceIsNamed, KeepCopies
  <2>5. \/ IsNewest(t)'
        \/ LET q == commits'[t][Len(commits'[t])].by IN q # Boot /\ post'[q].at # "lost"
    <3>1. CASE t = s
      BY <1>1, <1>2, <3>1
    <3>2. CASE t # s
      <4>1. Writer(t, Len(commits[t])) \in Requests \union {Boot}
        BY <2>2, LogTypes
      <4> QED  BY <1>1, <1>2, <2>1, <3>2, <4>1 DEF RaceIsNamed, IsNewest, Writer, KeepCopies
    <3> QED  BY <3>1, <3>2
  <2> QED  BY <2>4, <2>5 DEF RaceIsNamed, Writer
<1> QED  BY <1>1, <1>4, <1>5 DEF CopiesInv, RacesAreNamed, StartsLoadNewest

\* The copy becomes the row of the POST: it is as new as the POST, and rows that
\* are newer were written by POSTs of this run of the process.
LEMMA ApplyKeepsCopies ==
  ASSUME IndInv, IndInv', LogInv, LogInv', CopiesInv, NEW r \in Requests, Apply(r)
  PROVE  CopiesInv'
<1>1. PICK s \in Stores, n \in Nat : s = post[r].store /\ n = post[r].commit
  BY DEF IndInv, TypeOK, Posts
<1>2. /\ post[r].at = "apply" /\ boot = "serving" /\ boot' = "serving"
      /\ UNCHANGED <<disk, commits, before>>
      /\ served'[s] = post[r].value /\ servedAt'[s] = n
      /\ \A t \in Stores : t # s => served'[t] = served[t] /\ servedAt'[t] = servedAt[t]
  BY <1>1 DEF Apply, Serve, NoWrite, IndInv, TypeOK, PostsAreLogged
<1>3. /\ \A q \in Requests : Stands(q)
      /\ post'[r].at = "saved" /\ post'[r].store = s /\ post'[r].commit = n
      /\ \A q \in Requests \ {r} : post'[q] = post[q]
  BY <1>1, QuietApply DEF QuietLog
<1>4. /\ n \in 1..Len(commits[s]) /\ Len(commits[s]) \in Nat /\ Writer(s, n) = r
      /\ r # Boot
  BY <1>1, <1>2, LogTypes DEF LogInv, RowsNamePosts
<1>5. \A q \in Requests : r \notin before[q]
  BY <1>2 DEF LogInv, BeforeHaveEnded, Ended
<1>6. ASSUME NEW t \in Stores
      PROVE  CopyIsNew(t)' /\ servedAt'[t] <= Len(commits'[t])
  <2>1. CASE t = s
    <3>1. StemsFrom(s, n, n)'
      BY <1>2, <1>4 DEF StemsFrom, Writer
    <3>2. n \in 1..n
      BY <1>4
    <3>3. CopyIsNew(s)'
      <4> SUFFICES ASSUME NEW q \in Requests
                   PROVE  \E k \in 1..n : StemsFrom(s, n, k)' /\ Writer(s, k)' \notin before'[q]
        BY <1>2 DEF CopyIsNew, StemsFrom
      <4>1. Writer(s, n)' \notin before'[q]
        BY <1>2, <1>4, <1>5 DEF Writer
      <4> QED  BY <3>1, <3>2, <4>1
    <3> QED  BY <1>2, <1>4, <2>1, <3>3
  <2>2. CASE t # s
    <3>1. CopyIsNew(t) /\ servedAt[t] <= Len(commits[t])
      BY DEF CopiesInv, CopiesAreNew
    <3>2. \A q \in Requests : post'[q].at = "saved" /\ post'[q].store = t =>
            post[q].at = "saved" /\ post[q].store = t
      BY <1>3, <2>2
    <3> QED  BY <1>2, <2>2, <3>1, <3>2 DEF CopyIsNew, StemsFrom, Writer
  <2> QED  BY <2>1, <2>2
<1>7. ASSUME NEW t \in Stores
      PROVE  RaceIsNamed(t)'
  <2>1. CASE t = s
    <3>1. Len(commits[s]) \in n..Len(commits[s])
      BY <1>4
    <3>2. /\ Writer(s, Len(commits[s])) # Boot
          /\ post[Writer(s, Len(commits[s]))].at # "lost"
      BY <1>1, <1>2, <3>1 DEF LogInv, OnlyPostsSince
    <3>3. Writer(s, Len(commits[s])) \in Requests
      BY <1>4, <3>2, LogTypes
    <3>4. post'[Writer(s, Len(commits[s]))].at # "lost"
      BY <1>2, <1>3, <3>2, <3>3 DEF Stands
    <3> QED  BY <1>2, <1>4, <2>1, <3>2, <3>4 DEF RaceIsNamed, Writer
  <2>2. CASE t # s
    <3> SUFFICES ASSUME served[t] # None
                 PROVE  RaceIsNamed(t)'
      BY <1>2, <2>2 DEF RaceIsNamed
    <3>1. IsLogged(t) /\ RaceIsNamed(t)
      BY <1>2 DEF CopiesInv, RacesAreNamed, IndInv, CopiesAreLogged, Stores
    <3>2. Len(commits[t]) \in 1..Len(commits[t])
      BY <3>1, LogTypes DEF IsLogged
    <3>3. Writer(t, Len(commits[t])) \in Requests \union {Boot}
      BY <3>2, LogTypes
    <3>4. \A q \in Requests : post'[q].at = "saved" /\ post'[q].store = t =>
            post[q].at = "saved" /\ post[q].store = t /\ post'[q].commit = post[q].commit
      BY <1>3, <2>2
    <3> QED  BY <1>2, <1>3, <2>2, <3>1, <3>3, <3>4 DEF RaceIsNamed, IsNewest, Writer, Stands
  <2> QED  BY <2>1, <2>2
<1> QED  BY <1>2, <1>6, <1>7 DEF CopiesInv, CopiesAreNew, RacesAreNamed, StartsLoadNewest

LEMMA PostKeepsCopies ==
  ASSUME IndInv, IndInv', CopiesInv,
         NEW r \in Requests, NEW s \in Stores, NEW v \in Values(s), Post(r, s, v)
  PROVE  CopiesInv'
<1>1. /\ boot = "serving" /\ boot' = "serving" /\ disk' = disk /\ KeepCopies
      /\ post'[r].at \in {"save", "failed"}
      /\ \A q \in Requests \ {r} : post'[q] = post[q] /\ before'[q] = before[q]
  BY DEF Post, KeepCopies, IndInv, TypeOK
<1>2. SavedStay
  BY <1>1 DEF SavedStay
<1> QED  BY <1>1, <1>2, QuietPost, QuietPostKeepsCopies

LEMMA SaveRowFailsKeepsCopies ==
  ASSUME IndInv, IndInv', CopiesInv, NEW r \in Requests, SaveRowFails(r)
  PROVE  CopiesInv'
<1>1. /\ boot = "serving" /\ boot' = "serving" /\ KeepCopies /\ before' = before
      /\ post[r].at = "save" /\ post'[r].at = "failed"
      /\ \A q \in Requests \ {r} : post'[q] = post[q]
      /\ post[r].store \in Stores
  BY DEF SaveRowFails, KeepCopies, IndInv, TypeOK, PostsAreLogged, Posts
<1>2. CASE PostWrites(r)
  BY <1>1, <1>2, PostWritesKeepsCopies
<1>3. CASE NoWrite
  <2>1. SavedStay
    BY <1>1 DEF SavedStay
  <2>2. QuietLog
    <3>1. ASSUME NEW q \in Requests PROVE Stands(q)
      BY <1>1, AdminAssumption DEF Stands, Ended, SaveRowFails, IndInv, TypeOK, Posts
    <3> QED  BY <1>1, <1>3, <3>1 DEF QuietLog, NoWrite
  <2> QED  BY <1>1, <1>3, <2>1, <2>2, QuietPostKeepsCopies DEF NoWrite
<1>4. NoWrite \/ Commit(post[r].store, post[r].value, r)
  BY DEF SaveRowFails, SaveFails, NoWrite
<1>5. Commit(post[r].store, post[r].value, r) => PostWrites(r)
  BY <1>1 DEF PostWrites, SaveRowFails, IndInv, TypeOK, Posts
<1> QED  BY <1>2, <1>3, <1>4, <1>5

\* No step leads out of what is known of the copies.
LEMMA NextKeepsCopies ==
  ASSUME IndInv, LogInv, CopiesInv, [Next]_vars
  PROVE  LogInv' /\ CopiesInv'
<1>1. IndInv' /\ LogInv'
  BY NextKeepsInv, NextKeepsLog DEF CopiesInv
<1>2. CASE Start \/ BootstrapConfigs
  <2>1. \/ Exit
        \/ boot' \in {"templates", "load"} /\ KeepCopies
    BY <1>2 DEF Start, BootstrapConfigs, Go
  <2>2. UNCHANGED <<post, before>> /\ boot # "serving"
    BY <1>2 DEF Start, BootstrapConfigs, At
  <2>3. LogGrows
    <3>1. CASE NoWrite
      BY <3>1, NoWriteKeepsDb DEF IndInv
    <3>2. CASE Save("templates", file.templates, Boot) /\ file.templates # Bad
      <4>1. file.templates \in Values("templates") /\ "templates" \in Stores
        BY <3>2, ValuesAreRows DEF IndInv, TypeOK, Stores
      <4> QED  BY <3>2, <4>1, SavingStep
    <3> QED  BY <1>2, <3>1, <3>2 DEF Start, BootstrapConfigs
  <2> QED  BY <1>1, <2>1, <2>2, <2>3, ExitKeepsCopies, EarlyStepKeepsCopies
<1>3. CASE BootstrapConfigsFails \/ LoadTemplateSetFails \/ EnsureMihomoOverridesFails \/ Crash
  BY <1>1, <1>3, ExitKeepsCopies DEF BootstrapConfigsFails, LoadTemplateSetFails,
     EnsureMihomoOverridesFails, Crash
<1>4. CASE \/ LoadTemplateSet \/ LoadHeaderStore \/ LoadHeaderStoreFails
           \/ BootstrapHeaders \/ BootstrapHeadersFails \/ EnsureMihomoOverrides
  BY <1>1, <1>4, LoadTemplateSetKeepsCopies, LoadHeaderStoreKeepsCopies,
     LoadHeaderStoreFailsKeepsCopies, BootstrapHeadersKeepsCopies,
     BootstrapHeadersFailsKeepsCopies, EnsureMihomoOverridesKeepsCopies
<1>5. ASSUME NEW r \in Requests, NEW s \in Stores, NEW v \in Values(s), Post(r, s, v)
      PROVE  CopiesInv'
  BY <1>1, <1>5, PostKeepsCopies
<1>6. ASSUME NEW r \in Requests, SaveRow(r)
      PROVE  CopiesInv'
  <2>1. PostWrites(r) /\ KeepCopies /\ boot' = "serving"
    BY <1>6, SavingWrites DEF SaveRow, KeepCopies, PostWrites
  <2> QED  BY <1>1, <2>1, PostWritesKeepsCopies
<1>7. ASSUME NEW r \in Requests, Apply(r) \/ SaveRowFails(r)
      PROVE  CopiesInv'
  BY <1>1, <1>7, ApplyKeepsCopies, SaveRowFailsKeepsCopies
<1>8. CASE UNCHANGED vars
  <2>1. /\ UNCHANGED <<disk, served, boot, post, commits, servedAt, before>>
        /\ CopiesAreNew /\ StartsLoadNewest /\ RacesAreNamed
    BY <1>8 DEF vars, CopiesInv
  <2>2. CopiesAreNew'
    BY <2>1 DEF CopiesAreNew, CopyIsNew, StemsFrom, Writer
  <2>3. StartsLoadNewest'
    BY <2>1 DEF StartsLoadNewest, IsNewest, OnlyStarts, Writer
  <2>4. RacesAreNamed'
    BY <2>1 DEF RacesAreNamed, RaceIsNamed, IsNewest, Writer
  <2> QED  BY <1>1, <2>2, <2>3, <2>4 DEF CopiesInv
<1> QED  BY <1>1, <1>2, <1>3, <1>4, <1>5, <1>6, <1>7, <1>8
         DEF Next, BootStep, BootFault, PostStep

LEMMA InitHistory == Init => HistoryInv
<1> SUFFICES ASSUME Init PROVE HistoryInv
  OBVIOUS
<1>1. /\ \A s \in Stores : commits[s] = <<>> /\ served[s] = None /\ servedAt[s] = 0
      /\ \A r \in Requests : post[r].at = "new" /\ before[r] = {}
      /\ boot = "down"
  BY DEF Init
<1>2. LogInv
  BY <1>1 DEF LogInv, EntriesNamePosts, RowsNamePosts, BeforeHaveEnded, WritesInOrder,
     EntriesStem, OnlyPostsSince
<1>3. CopiesInv
  BY <1>1 DEF CopiesInv, CopiesAreNew, CopyIsNew, StartsLoadNewest, RacesAreNamed
<1> QED  BY <1>2, <1>3 DEF HistoryInv

\* The log tells who wrote what and in which order, and the copies go back to
\* entries that are as new as an acknowledged POST demands, whatever the order
\* of POSTs, failed writes, crashes and starts.
THEOREM HistoryInvariance == Spec => []HistoryInv
<1>1. Init => HistoryInv
  BY InitHistory
<1>2. IndInv /\ HistoryInv /\ [Next]_vars => HistoryInv'
  BY NextKeepsCopies DEF HistoryInv
<1> QED  BY <1>1, <1>2, Invariance, PTL DEF Spec

\* What POST entry the copy goes back to, and that it is no older than an
\* acknowledged POST.
LEMMA ServedStems ==
  ASSUME IndInv, HistoryInv, NEW s \in Stores, served[s] # None, IsLogged(s),
         NEW r \in Requests, post[r].at = "saved", post[r].store = s
  PROVE  \E w \in Requests \ before[r] :
           /\ post[w].store = s
           /\ \/ served[s] = post[w].value
              \/ /\ s = "headers" /\ post[w].value.mihomo = Empty
                 /\ served[s] = Completed(post[w].value)
<1>1. PICK k \in 1..servedAt[s] : StemsFrom(s, servedAt[s], k) /\ Writer(s, k) \notin before[r]
  BY DEF HistoryInv, CopiesInv, CopiesAreNew, CopyIsNew
<1>2. k \in 1..Len(commits[s]) /\ Writer(s, k) # Boot
  BY <1>1, LogTypes DEF IsLogged, StemsFrom
<1>3. Writer(s, k) \in Requests \ before[r]
  BY <1>1, <1>2, LogTypes
<1>4. post[Writer(s, k)].store = s /\ post[Writer(s, k)].value = commits[s][k].value
  BY <1>2 DEF HistoryInv, LogInv, EntriesNamePosts
<1>5. commits[s][servedAt[s]].value = served[s]
  BY DEF IsLogged
<1> QED  BY <1>1, <1>3, <1>4, <1>5 DEF StemsFrom

\* A saved library survives every later start and crash, and nothing brings an
\* older library or the file's templates back.
THEOREM TemplatesSurviveHolds == Spec => []TemplatesSurvive
<1>1. IndInv /\ HistoryInv => TemplatesSurvive
  <2> SUFFICES ASSUME IndInv, HistoryInv, boot = "serving", NEW r \in Requests,
                      post[r].at = "saved", post[r].store = "templates"
               PROVE  \E w \in Requests \ before[r] :
                        post[w].store = "templates" /\ post[w].value = served["templates"]
    BY DEF TemplatesSurvive
  <2>1. IsLogged("templates")
    BY DEF IndInv, CopiesAreLogged
  <2>2. served["templates"] # None /\ "templates" \in Stores
    <3> DEFINE Write == [by : Requests \union {Boot}, value : Values("templates")]
    <3>1. commits["templates"] \in Seq(Write)
      BY DEF IndInv, TypeOK, Stores
    <3>2. servedAt["templates"] \in 1..Len(commits["templates"])
      BY <2>1 DEF IsLogged
    <3> HIDE DEF Write
    <3>3. commits["templates"][servedAt["templates"]] \in Write
      BY <3>1, <3>2
    <3> QED  BY <2>1, <3>3, ValuesAreRows DEF IsLogged, Write, Stores
  <2> QED  BY <2>1, <2>2, ServedStems
<1> QED  BY <1>1, Invariance, HistoryInvariance, PTL

\* Saved overrides survive every later start and crash, but for the completion
\* of a set that has none for Mihomo.
THEOREM HeadersSurviveHolds == Spec => []HeadersSurviveCompletion
<1>1. IndInv /\ HistoryInv => HeadersSurviveCompletion
  <2> SUFFICES ASSUME IndInv, HistoryInv, boot = "serving", served["headers"] # None, NEW r \in Requests,
                      post[r].at = "saved", post[r].store = "headers"
               PROVE  \E w \in Requests \ before[r] :
                        /\ post[w].store = "headers"
                        /\ \/ served["headers"] = post[w].value
                           \/ /\ post[w].value.mihomo = Empty
                              /\ served["headers"] = Completed(post[w].value)
    BY DEF HeadersSurviveCompletion
  <2>1. IsLogged("headers") /\ "headers" \in Stores
    BY DEF IndInv, CopiesAreLogged, Stores
  <2> QED  BY <2>1, ServedStems
<1> QED  BY <1>1, Invariance, HistoryInvariance, PTL

\* Once no POST is under way, row and copy of a setting are equal, or the row is
\* from a POST that was answered with an error, or they are from two POSTs that
\* were served at once.
THEOREM OnlyRacesDivergeHolds == Spec => []OnlyRacesDiverge
<1>1. IndInv /\ HistoryInv => OnlyRacesDiverge
  <2> SUFFICES ASSUME IndInv, HistoryInv, boot = "serving", InFlight = {}, NEW s \in Stores,
                      served[s] # None, served[s] # disk[s]
               PROVE  LET q == commits[s][Len(commits[s])].by IN
                      /\ q \in Requests
                      /\ \/ post[q].at = "failed"
                         \/ Author(s) \in Requests /\ Overlap(q, Author(s))
    BY DEF OnlyRacesDiverge
  <2>1. IsLogged(s) /\ RaceIsNamed(s)
    BY DEF HistoryInv, CopiesInv, RacesAreNamed, IndInv, CopiesAreLogged, Stores
  <2>2. PICK n \in Nat, q, a \in Requests \union {Boot} :
          /\ n = Len(commits[s]) /\ n \in 1..n /\ servedAt[s] \in 1..n
          /\ q = Writer(s, n) /\ a = Writer(s, servedAt[s])
    BY <2>1, LogTypes DEF IsLogged
  <2>3. servedAt[s] # n
    BY <2>1, <2>2 DEF IsLogged, IndInv, RowsAreLogged
  <2>4. q \in Requests /\ post[q].at # "lost" /\ q # Boot
    BY <2>1, <2>2, <2>3 DEF RaceIsNamed, IsNewest
  <2>5. post[q].store = s /\ post[q].at \notin {"new", "save"}
    BY <2>2, <2>4 DEF HistoryInv, LogInv, EntriesNamePosts
  <2>6. post[q].at # "apply"
    BY <2>4 DEF InFlight
  <2>7. CASE post[q].at = "failed"
    BY <2>2, <2>4, <2>7 DEF Writer
  <2>8. CASE post[q].at = "saved"
    <3>1. PICK k \in 1..servedAt[s] : StemsFrom(s, servedAt[s], k) /\ Writer(s, k) \notin before[q]
      BY <2>4, <2>5, <2>8 DEF HistoryInv, CopiesInv, CopiesAreNew, CopyIsNew
    <3>2. post[q].commit = n
      BY <2>2, <2>4, <2>8 DEF HistoryInv, LogInv, EntriesNamePosts
    <3>3. a # Boot
      BY <2>1, <2>2, <2>3, <2>4, <2>5, <2>8, <3>2 DEF RaceIsNamed
    <3>4. k = servedAt[s]
      BY <2>2, <3>1, <3>3 DEF StemsFrom
    <3>5. a \notin before[q]
      BY <2>2, <3>1, <3>4
    <3>6. q \notin before[a]
      BY <2>2, <2>3, <3>3 DEF HistoryInv, LogInv, WritesInOrder
    <3> QED  BY <2>2, <2>4, <3>3, <3>5, <3>6 DEF Author, Overlap, Writer
  <2>9. post[q].at \in Ended \union {"new", "save", "apply"}
    BY <2>4 DEF IndInv, TypeOK, Posts
  <2> QED  BY <2>5, <2>4, <2>6, <2>7, <2>8, <2>9 DEF Ended
<1> QED  BY <1>1, Invariance, HistoryInvariance, PTL
=============================================================================
