--------------------------- MODULE Histories_proofs ---------------------------
(***************************************************************************)
(* The append-only histories: the C2P event journal, the programme genesis *)
(* ledger, the research records with their audit trail and the lineage of  *)
(* checkpoints, for any number of processes and contents.                  *)
(***************************************************************************)
EXTENDS GenesisLedger, CheckpointLineage, EventJournal, ResearchRecords, FiniteSetLemmas

(***************************************************************************)
(* GenesisLedger                                                           *)
(***************************************************************************)

IdsDistinct == \A i, j \in DOMAIN portfolio : portfolio[i][1] = portfolio[j][1] => i = j

\* As long as nothing has gone wrong, an event that was checked is still a new one.
StillNew ==
  /\ cut = "NO" /\ IdsDistinct
  /\ \A p \in Recorders : doing[p] = "CHECKED" =>
       \A i \in DOMAIN portfolio : portfolio[i][1] # subject[p][1]

\* The events that were counted are the first ones of the file.
CountedIsPrefix ==
  \A p \in Recorders : doing[p] = "COUNTED" => IsPrefix(read[p], portfolio)

GenesisIInv ==
  /\ GenesisTypeOK
  /\ subject \in [Recorders -> ProgrammeEvents \cup {NoProgrammeEvent}]
  /\ read \in [Recorders -> Seq(ProgrammeEvents)]
  /\ cut = "NO" => digests \subseteq Range(portfolio)
  /\ causes = {} => StillNew
  /\ CountedIsPrefix
  /\ InventoryIsPrefix

LEMMA PrefixGrows ==
  ASSUME NEW S, NEW s \in Seq(S), NEW t \in Seq(S), NEW x \in S, IsPrefix(s, t)
  PROVE  IsPrefix(s, s) /\ IsPrefix(s, Append(t, x))
<1>1. Len(s) \in Nat /\ Len(t) \in Nat /\ Len(s) <= Len(t) /\ SubSeq(s, 1, Len(s)) = SubSeq(t, 1, Len(s))
  BY DEF IsPrefix
<1>2. /\ Append(t, x) \in Seq(S) /\ Len(Append(t, x)) = Len(t) + 1
      /\ \A i \in 1..Len(t) : Append(t, x)[i] = t[i]
  BY AppendProperties
<1> DEFINE u == Append(t, x)
<1> HIDE DEF u
<1>3. SubSeq(u, 1, Len(s)) = SubSeq(t, 1, Len(s))
  BY <1>1, <1>2, FirstMembers, SeqEqual DEF u
<1> QED BY <1>1, <1>2, <1>3 DEF IsPrefix, u

LEMMA GenesisImplied == GenesisIInv => GenesisInv
BY DEF GenesisIInv, GenesisInv, ReadableIsComplete, UnreadableHasCause, Reads, Terminated,
  StillNew, IdsDistinct, IsInjective

LEMMA GenesisInitInv == GenesisInit => GenesisIInv
BY DEF GenesisInit, GenesisIInv, GenesisTypeOK, StillNew, IdsDistinct, CountedIsPrefix,
  InventoryIsPrefix

LEMMA GenesisStep ==
  ASSUME GenesisIInv, GenesisNext
  PROVE  GenesisIInv'
<1>1. PICK p \in Recorders :
        \/ CheckDuplicate(p) \/ AppendProgrammeEvent(p) \/ StopMidLine(p)
        \/ CountEvents(p) \/ HashBytes(p)
  BY DEF GenesisNext
<1>2. CASE CheckDuplicate(p)
  BY <1>2 DEF CheckDuplicate, LedgerBusy, NewId, Ids, Range, ledgerFile, GenesisIInv, GenesisTypeOK,
    StillNew, IdsDistinct, CountedIsPrefix, InventoryIsPrefix
<1>3. CASE AppendProgrammeEvent(p)
  <2>1. /\ doing[p] = "CHECKED" /\ subject[p] \in ProgrammeEvents /\ portfolio \in Seq(ProgrammeEvents)
        /\ Return(p) /\ UNCHANGED inventories /\ digests' = digests \cup {subject[p]}
    BY <1>3 DEF AppendProgrammeEvent, GenesisIInv, GenesisTypeOK
  <2>2. CASE cut = "OPEN"
    <3>1. cut' = "BURIED" /\ UNCHANGED portfolio /\ causes # {}
      BY <1>3, <2>2 DEF AppendProgrammeEvent, GenesisIInv, StillNew
    <3>2. causes' # {}
      BY <1>3, <3>1 DEF AppendProgrammeEvent
    <3> QED BY <2>1, <3>1, <3>2 DEF Return, GenesisIInv, GenesisTypeOK, CountedIsPrefix, InventoryIsPrefix
  <2>3. CASE cut # "OPEN"
    <3>1. /\ portfolio' = Append(portfolio, subject[p]) /\ UNCHANGED cut
          /\ portfolio' \in Seq(ProgrammeEvents) /\ Len(portfolio') = Len(portfolio) + 1
          /\ \A i \in 1..Len(portfolio) : portfolio'[i] = portfolio[i]
          /\ portfolio'[Len(portfolio) + 1] = subject[p]
      BY <1>3, <2>1, <2>3, AppendProperties DEF AppendProgrammeEvent
    <3>2. DOMAIN portfolio = 1..Len(portfolio) /\ DOMAIN portfolio' = 1..(Len(portfolio) + 1)
      BY <2>1, <3>1
    <3>3. GenesisTypeOK' /\ subject' \in [Recorders -> ProgrammeEvents \cup {NoProgrammeEvent}]
      BY <2>1, <3>1 DEF Return, GenesisIInv, GenesisTypeOK
    <3>4. read' \in [Recorders -> Seq(ProgrammeEvents)]
      BY <2>1 DEF Return, GenesisIInv
    <3>5. cut' = "NO" => digests' \subseteq Range(portfolio')
      <4>1. Range(portfolio) \subseteq Range(portfolio') /\ subject[p] \in Range(portfolio')
        BY <2>1, <3>1, <3>2 DEF Range
      <4> QED BY <2>1, <3>1, <4>1 DEF GenesisIInv
    <3>6. causes' = {} => StillNew'
      <4> SUFFICES ASSUME causes' = {} PROVE StillNew'
        OBVIOUS
      <4>1. causes = {} /\ ~Rival(p)
        BY <1>3 DEF AppendProgrammeEvent
      <4>2. StillNew
        BY <4>1 DEF GenesisIInv
      <4>3. \A i \in DOMAIN portfolio : portfolio[i][1] # subject[p][1]
        BY <2>1, <4>2 DEF StillNew
      <4>4. IdsDistinct'
        BY <2>1, <3>1, <3>2, <4>2, <4>3 DEF IdsDistinct, StillNew
      <4>5. ASSUME NEW q \in Recorders, doing'[q] = "CHECKED", NEW i \in DOMAIN portfolio'
            PROVE  portfolio'[i][1] # subject'[q][1]
        <5>1. q # p /\ doing[q] = "CHECKED" /\ subject'[q] = subject[q]
          BY <2>1, <4>5 DEF Return, GenesisIInv, GenesisTypeOK
        <5>2. subject[q][1] # subject[p][1]
          BY <4>1, <5>1 DEF Rival
        <5> QED BY <3>1, <3>2, <4>2, <5>1, <5>2 DEF StillNew
      <4> QED BY <3>1, <4>2, <4>4, <4>5 DEF StillNew
    <3>7. CountedIsPrefix'
      <4> SUFFICES ASSUME NEW q \in Recorders, doing'[q] = "COUNTED"
                   PROVE  IsPrefix(read'[q], portfolio')
        BY DEF CountedIsPrefix
      <4>1. q # p /\ doing[q] = "COUNTED" /\ read'[q] = read[q] /\ read[q] \in Seq(ProgrammeEvents)
        BY <2>1 DEF Return, GenesisIInv, GenesisTypeOK
      <4> QED BY <2>1, <3>1, <4>1, PrefixGrows DEF GenesisIInv, CountedIsPrefix
    <3>8. InventoryIsPrefix'
      BY <2>1 DEF GenesisIInv, InventoryIsPrefix
    <3> QED BY <3>3, <3>4, <3>5, <3>6, <3>7, <3>8 DEF GenesisIInv
  <2> QED BY <2>2, <2>3
<1>4. CASE StopMidLine(p)
  BY <1>4 DEF StopMidLine, Return, GenesisIInv, GenesisTypeOK, CountedIsPrefix, InventoryIsPrefix
<1>5. CASE CountEvents(p)
  <2>1. IsPrefix(portfolio, portfolio)
    BY DEF IsPrefix, GenesisIInv, GenesisTypeOK
  <2> QED BY <1>5, <2>1 DEF CountEvents, LedgerBusy, ledgerFile, GenesisIInv, GenesisTypeOK, StillNew,
        IdsDistinct, CountedIsPrefix, InventoryIsPrefix
<1>6. CASE HashBytes(p)
  <2>1. IsPrefix(read[p], portfolio) /\ ledgerFile[1] = portfolio
    BY <1>6 DEF HashBytes, GenesisIInv, CountedIsPrefix, ledgerFile
  <2>2. InventoryIsPrefix'
    BY <1>6, <2>1 DEF HashBytes, GenesisIInv, InventoryIsPrefix
  <2> QED BY <1>6, <2>2 DEF HashBytes, Return, ledgerFile, GenesisIInv, GenesisTypeOK, StillNew,
        IdsDistinct, CountedIsPrefix
<1> QED BY <1>1, <1>2, <1>3, <1>4, <1>5, <1>6

\* However appends, stops and inventories interleave, a ledger that reads is complete,
\* one that does not has a cause, and an inventory counts what it hashes.
THEOREM GenesisCorrect == GenesisSpec => []GenesisInv
<1>1. GenesisIInv /\ UNCHANGED genesisVars => GenesisIInv'
  BY DEF genesisVars, ledgerFile, recorder, GenesisIInv, GenesisTypeOK, StillNew, IdsDistinct,
    CountedIsPrefix, InventoryIsPrefix, Range
<1> QED BY GenesisInitInv, GenesisStep, GenesisImplied, <1>1, PTL DEF GenesisSpec

(***************************************************************************)
(* CheckpointLineage                                                       *)
(***************************************************************************)

FilesOf(n) == [1..n -> Payloads] \cup {Garbage, Absent}
Active(c) == phase[c] # "IDLE"

LineageTypes ==
  /\ LineageTypeOK
  /\ checkpoints \in [Numbers -> Chains \cup {Garbage, Absent}]
  /\ temporary \in [Numbers -> Chains \cup {Garbage, Absent}]

\* The files before a commit under way are there, and its record is built on the last.
CommitsFollow ==
  \A c \in Committers : Active(c) =>
    /\ Number(c) \in Numbers
    /\ \A n \in Numbers : n < Number(c) => n \in Present
    /\ Number(c) > 1 /\ Number(c) - 1 \notin contested =>
         checkpoints[Number(c) - 1] = Front(record[c])

\* Of one number that was never contested there is one commit, which has it to itself:
\* the file is absent until the commit renames its own bytes to it.
CommitsAlone ==
  \A c \in Committers : Active(c) /\ Number(c) \notin contested =>
    /\ \A d \in Committers : Active(d) /\ Number(d) = Number(c) => d = c
    /\ phase[c] # "WRITTEN" => checkpoints[Number(c)] = Absent
    /\ phase[c] = "WRITTEN" => checkpoints[Number(c)] = record[c]
    /\ phase[c] \in {"FILLING", "RENAMING"} => handle[c] = "TMP"
    /\ phase[c] = "FILLING" => temporary[Number(c)] = Garbage
    /\ phase[c] = "RENAMING" => temporary[Number(c)] = record[c]

NoGap == \A n \in Present, m \in Numbers : m < n => m \in Present

ReceiptsNumbered == \A r \in receipts : Len(r) \in Numbers

LineageIInv ==
  /\ LineageTypes
  /\ CommitsFollow
  /\ CommitsAlone
  /\ NoGap
  /\ ReceiptsNumbered
  /\ ReceiptsKept
  /\ LineageUnbroken

LEMMA ChainFacts ==
  /\ \A n \in Numbers : [1..n -> Payloads] \subseteq Chains
  /\ \A r \in Chains : /\ Len(r) \in 0..MaxCheckpoints /\ r \in Seq(Payloads)
                       /\ r \in [1..Len(r) -> Payloads]
                       /\ r # Absent /\ r # Garbage
<1>1. \A n \in Numbers : n \in 0..MaxCheckpoints
  BY LineageAssumption DEF Numbers
<1>2. ASSUME NEW r \in Chains
      PROVE  Len(r) \in 0..MaxCheckpoints /\ r \in Seq(Payloads) /\ r \in [1..Len(r) -> Payloads]
  <2>1. PICK n \in 0..MaxCheckpoints : r \in [1..n -> Payloads]
    BY DEF Chains
  <2>2. n \in Nat
    BY LineageAssumption
  <2>3. r \in Seq(Payloads) /\ Len(r) = n
    BY <2>1, <2>2, SequenceOfLength
  <2> QED BY <2>1, <2>3
<1> QED BY <1>1, <1>2, LineageAssumption DEF Chains

\* Files that are present before a number are a run from 1 on.
LEMMA NoGapIsGapFree == LineageTypes /\ NoGap => GapFree
<1> SUFFICES ASSUME LineageTypes, NoGap PROVE Present = 1..Newest
  BY DEF GapFree
<1> DEFINE S == Present \cup {0}
<1>1. Present \subseteq Numbers /\ Numbers \subseteq 1..MaxCheckpoints /\ MaxCheckpoints \in Nat
  BY LineageAssumption DEF Present, Numbers
<1>2. IsFiniteSet(S) /\ S # {} /\ S \subseteq Int
  <2>1. IsFiniteSet(0..MaxCheckpoints) /\ S \subseteq 0..MaxCheckpoints
    BY <1>1, FS_Interval
  <2> HIDE DEF S
  <2>2. IsFiniteSet(S)
    BY <2>1, FS_Subset
  <2> QED BY <1>1, <2>1, <2>2 DEF S
<1>3. Newest \in S /\ \A n \in S : Newest >= n
  <2>1. Newest = Max(S)
    BY DEF Newest
  <2> HIDE DEF S
  <2> QED BY <1>2, <2>1, MaxIsGreatest
<1>4. \A n \in Numbers : n \in 1..Newest => n \in Present
  BY <1>1, <1>3 DEF NoGap
<1>5. Newest \in 0..MaxCheckpoints /\ \A n \in Present : n \in 1..Newest
  BY <1>1, <1>3
<1>6. 1..Newest \subseteq Numbers
  BY <1>1, <1>5 DEF Numbers
<1> QED BY <1>4, <1>5, <1>6

\* What is known of one commit.
LEMMA CommitFacts ==
  ASSUME LineageIInv, NEW c \in Committers
  PROVE  /\ record[c] \in Chains /\ Number(c) \in 0..MaxCheckpoints
         /\ record[c] \in [1..Number(c) -> Payloads] /\ record[c] # Absent /\ record[c] # Garbage
         /\ Active(c) => Number(c) \in Numbers /\ Number(c) \in Nat
BY ChainFacts, LineageAssumption DEF LineageIInv, LineageTypes, LineageTypeOK, Number, Numbers,
  CommitsFollow

\* A step of a commit that leaves the checkpoints as they are.
LEMMA CheckpointsKept ==
  ASSUME LineageIInv, NEW c \in Committers, Active(c),
         NEW next \in {"IDLE", "BUILT", "OPENING", "FILLING", "RENAMING", "WRITTEN"}, Goto(c, next),
         UNCHANGED <<checkpoints, record, contested>>,
         temporary' = temporary \/ \E v \in [1..Number(c) -> Payloads] \cup {Garbage} :
                                     temporary' = [temporary EXCEPT ![Number(c)] = v],
         handle' \in [Committers -> {"TMP", "FINAL"}],
         \A d \in Committers \ {c} : handle'[d] = handle[d],
         receipts' = receipts \/ receipts' = receipts \cup {record[c]},
         Number(c) \notin contested =>
           /\ receipts' # receipts => checkpoints[Number(c)] = record[c]
           /\ next \notin {"IDLE", "WRITTEN"} => checkpoints[Number(c)] = Absent
           /\ next = "WRITTEN" => checkpoints[Number(c)] = record[c]
           /\ next \in {"FILLING", "RENAMING"} => handle'[c] = "TMP"
           /\ next = "FILLING" => temporary'[Number(c)] = Garbage
           /\ next = "RENAMING" => temporary'[Number(c)] = record[c]
  PROVE  LineageIInv'
<1>1. /\ record[c] \in Chains /\ Number(c) \in Numbers
      /\ \A d \in Committers : Number(d)' = Number(d)
      /\ Present' = Present
  BY CommitFacts DEF Number, Present
<1>2. /\ phase' \in [Committers -> {"IDLE", "BUILT", "OPENING", "FILLING", "RENAMING", "WRITTEN"}]
      /\ phase'[c] = next /\ \A d \in Committers \ {c} : phase'[d] = phase[d]
  BY DEF Goto, LineageIInv, LineageTypes, LineageTypeOK
<1>3. /\ temporary' \in [Numbers -> Chains \cup {Garbage, Absent}]
      /\ \A n \in Numbers \ {Number(c)} : temporary'[n] = temporary[n]
      /\ \A n \in Numbers : temporary'[n] \in FilesOf(n)
  <2>1. [1..Number(c) -> Payloads] \subseteq Chains
    BY <1>1, ChainFacts
  <2> QED BY <1>1, <2>1 DEF LineageIInv, LineageTypes, LineageTypeOK, FilesOf
<1>4. LineageTypes'
  BY <1>1, <1>2, <1>3 DEF LineageIInv, LineageTypes, LineageTypeOK, FilesOf
<1>5. \A d \in Committers : Active(d)' => Active(d)
  BY <1>2 DEF Active
<1>6. CommitsFollow'
  BY <1>1, <1>5 DEF LineageIInv, CommitsFollow
<1>7. CommitsAlone'
  <2> SUFFICES ASSUME NEW d \in Committers, Active(d)', Number(d) \notin contested
               PROVE  /\ \A e \in Committers : Active(e)' /\ Number(e) = Number(d) => e = d
                      /\ phase'[d] # "WRITTEN" => checkpoints[Number(d)] = Absent
                      /\ phase'[d] = "WRITTEN" => checkpoints[Number(d)] = record[d]
                      /\ phase'[d] \in {"FILLING", "RENAMING"} => handle'[d] = "TMP"
                      /\ phase'[d] = "FILLING" => temporary'[Number(d)] = Garbage
                      /\ phase'[d] = "RENAMING" => temporary'[Number(d)] = record[d]
    BY <1>1 DEF CommitsAlone
  <2>1. \A e \in Committers : Active(e)' /\ Number(e) = Number(d) => e = d
    BY <1>5 DEF LineageIInv, CommitsAlone
  <2>2. CASE d = c
    BY <1>2, <2>1, <2>2 DEF Active
  <2>3. CASE d # c
    <3>1. Active(d) /\ Number(d) # Number(c) /\ Number(d) \in Numbers
      BY <1>5, <2>3, CommitFacts DEF LineageIInv, CommitsAlone
    <3> QED BY <1>2, <1>3, <2>1, <2>3, <3>1 DEF LineageIInv, CommitsAlone
  <2> QED BY <2>2, <2>3
<1>8. NoGap' /\ LineageUnbroken'
  BY <1>1 DEF LineageIInv, NoGap, LineageUnbroken
<1>9. ReceiptsNumbered' /\ ReceiptsKept'
  BY <1>1 DEF LineageIInv, ReceiptsNumbered, ReceiptsKept, Number
<1> QED BY <1>4, <1>6, <1>7, <1>8, <1>9 DEF LineageIInv

\* A commit puts v into its file: another's bytes, or garbage, only if it is contested.
LEMMA CheckpointWritten ==
  ASSUME LineageIInv, NEW c \in Committers, phase[c] \in {"FILLING", "RENAMING"},
         NEW next \in {"RENAMING", "WRITTEN"}, Goto(c, next),
         NEW v \in [1..Number(c) -> Payloads] \cup {Garbage},
         checkpoints' = [checkpoints EXCEPT ![Number(c)] = v],
         Number(c) \notin contested => v = record[c] /\ next = "WRITTEN",
         temporary' = temporary \/ temporary' = [temporary EXCEPT ![Number(c)] = Absent],
         handle' \in [Committers -> {"TMP", "FINAL"}],
         \A d \in Committers : Number(d) # Number(c) => handle'[d] = handle[d],
         UNCHANGED <<record, receipts, contested>>
  PROVE  LineageIInv'
<1> DEFINE n == Number(c)
<1>1. /\ record[c] \in Chains /\ n \in Numbers /\ n \in Nat /\ Active(c)
      /\ \A d \in Committers : Number(d)' = Number(d)
      /\ record[c] # Absent /\ record[c] # Garbage
  BY CommitFacts DEF Number, Active
<1>2. /\ phase' \in [Committers -> {"IDLE", "BUILT", "OPENING", "FILLING", "RENAMING", "WRITTEN"}]
      /\ phase'[c] = next /\ \A d \in Committers \ {c} : phase'[d] = phase[d]
  BY DEF Goto, LineageIInv, LineageTypes, LineageTypeOK
<1>3. v \in Chains \cup {Garbage} /\ v # Absent
  BY <1>1, ChainFacts, LineageAssumption
<1>4. /\ checkpoints' \in [Numbers -> Chains \cup {Garbage, Absent}]
      /\ checkpoints'[n] = v /\ \A m \in Numbers \ {n} : checkpoints'[m] = checkpoints[m]
  BY <1>1, <1>3 DEF LineageIInv, LineageTypes
<1>5. /\ temporary' \in [Numbers -> Chains \cup {Garbage, Absent}]
      /\ \A m \in Numbers \ {n} : temporary'[m] = temporary[m]
      /\ \A m \in Numbers : temporary'[m] \in FilesOf(m)
  BY <1>1 DEF LineageIInv, LineageTypes, LineageTypeOK, FilesOf
<1>6. LineageTypes'
  <2>1. \A m \in Numbers : checkpoints'[m] \in FilesOf(m)
    BY <1>4 DEF LineageIInv, LineageTypes, LineageTypeOK, FilesOf
  <2> QED BY <1>1, <1>2, <1>4, <1>5, <2>1 DEF LineageIInv, LineageTypes, LineageTypeOK, FilesOf
<1>7. Present' = Present \cup {n} /\ Present \subseteq Numbers
  BY <1>1, <1>3, <1>4 DEF Present
<1>8. \A d \in Committers : Active(d)' <=> Active(d)
  BY <1>1, <1>2 DEF Active
\* A number that was never contested was absent until now.
<1>9. n \notin contested => checkpoints[n] = Absent /\ n \notin Present
  BY <1>1 DEF LineageIInv, CommitsAlone, Present, Active
<1> HIDE DEF n
<1>10. CommitsFollow'
  <2> SUFFICES ASSUME NEW d \in Committers, Active(d)
               PROVE  /\ Number(d) \in Numbers
                      /\ \A m \in Numbers : m < Number(d) => m \in Present'
                      /\ Number(d) > 1 /\ Number(d) - 1 \notin contested =>
                           checkpoints'[Number(d) - 1] = Front(record[d])
    BY <1>1, <1>8 DEF CommitsFollow
  <2>1. /\ Number(d) \in Numbers /\ \A m \in Numbers : m < Number(d) => m \in Present
        /\ Number(d) > 1 /\ Number(d) - 1 \notin contested =>
             checkpoints[Number(d) - 1] = Front(record[d])
    BY DEF LineageIInv, CommitsFollow
  <2>2. Number(d) > 1 => Number(d) - 1 \in Numbers /\ Number(d) - 1 < Number(d)
    BY <2>1, LineageAssumption DEF Numbers
  <2> QED BY <1>4, <1>7, <1>9, <2>1, <2>2
<1>11. CommitsAlone'
  <2> SUFFICES ASSUME NEW d \in Committers, Active(d), Number(d) \notin contested
               PROVE  /\ \A e \in Committers : Active(e) /\ Number(e) = Number(d) => e = d
                      /\ phase'[d] # "WRITTEN" => checkpoints'[Number(d)] = Absent
                      /\ phase'[d] = "WRITTEN" => checkpoints'[Number(d)] = record[d]
                      /\ phase'[d] \in {"FILLING", "RENAMING"} => handle'[d] = "TMP"
                      /\ phase'[d] = "FILLING" => temporary'[Number(d)] = Garbage
                      /\ phase'[d] = "RENAMING" => temporary'[Number(d)] = record[d]
    BY <1>1, <1>8 DEF CommitsAlone
  <2>1. \A e \in Committers : Active(e) /\ Number(e) = Number(d) => e = d
    BY DEF LineageIInv, CommitsAlone
  <2>2. CASE d = c
    BY <1>2, <1>4, <2>1, <2>2 DEF n
  <2>3. CASE d # c
    <3>1. Number(d) # Number(c) /\ Number(d) \in Numbers
      BY <1>1, <2>1, <2>3, CommitFacts
    <3> QED BY <1>2, <1>4, <1>5, <2>1, <2>3, <3>1 DEF LineageIInv, CommitsAlone, n
  <2> QED BY <2>2, <2>3
<1>12. NoGap'
  <2>1. \A m \in Numbers : m < n => m \in Present
    BY <1>1 DEF LineageIInv, CommitsFollow, n
  <2> QED BY <1>7, <2>1 DEF LineageIInv, NoGap
<1>13. ReceiptsNumbered' /\ ReceiptsKept'
  <2>1. ASSUME NEW r \in receipts, Len(r) \notin contested PROVE checkpoints'[Len(r)] = r
    <3>1. r \in Chains /\ checkpoints[Len(r)] = r /\ Len(r) \in Numbers
      BY <2>1 DEF LineageIInv, LineageTypes, LineageTypeOK, ReceiptsKept, ReceiptsNumbered
    <3>2. r # Absent
      BY <3>1, ChainFacts
    <3>3. Len(r) # n
      BY <1>9, <2>1, <3>1, <3>2
    <3> QED BY <1>4, <3>1, <3>3
  <2> QED BY <2>1 DEF LineageIInv, ReceiptsNumbered, ReceiptsKept
<1>14. LineageUnbroken'
  <2> SUFFICES ASSUME NEW m \in Present', m # 1, m \notin contested, m - 1 \notin contested
               PROVE  checkpoints'[m] # Garbage /\ checkpoints'[m - 1] = Front(checkpoints'[m])
    BY DEF LineageUnbroken
  <2>1. m \in Numbers /\ m \in Nat /\ m > 1 /\ m - 1 \in Numbers /\ m - 1 < m
    BY <1>1, <1>7, LineageAssumption DEF Numbers
  <2>2. CASE m = n
    <3>1. checkpoints'[m] = record[c]
      BY <1>4, <2>2 DEF n
    <3>2. checkpoints[m - 1] = Front(record[c])
      BY <1>1, <2>1, <2>2 DEF LineageIInv, CommitsFollow, n
    <3>3. checkpoints'[m - 1] = checkpoints[m - 1]
      BY <1>4, <2>1, <2>2
    <3> QED BY <1>1, <3>1, <3>2, <3>3
  <2>3. CASE m # n
    <3>1. m \in Present /\ m - 1 \in Present
      BY <1>7, <2>1, <2>3 DEF LineageIInv, NoGap
    <3>2. m - 1 # n
      BY <1>9, <3>1
    <3>3. checkpoints[m] # Garbage /\ checkpoints[m - 1] = Front(checkpoints[m])
      BY <3>1, <2>1 DEF LineageIInv, LineageUnbroken
    <3> QED BY <1>4, <2>1, <2>3, <3>2, <3>3
  <2> QED BY <2>2, <2>3
<1> QED BY <1>6, <1>10, <1>11, <1>12, <1>13, <1>14 DEF LineageIInv

LEMMA LineageInitInv == LineageInit => LineageIInv
<1> SUFFICES ASSUME LineageInit PROVE LineageIInv
  OBVIOUS
<1>1. <<>> \in Chains
  <2>1. <<>> \in [1..0 -> Payloads] /\ 0 \in 0..MaxCheckpoints
    BY LineageAssumption
  <2> QED BY <2>1 DEF Chains
<1>2. LineageTypes
  BY <1>1 DEF LineageInit, LineageTypes, LineageTypeOK
<1>3. Present = {} /\ \A c \in Committers : ~Active(c)
  BY DEF LineageInit, Present, Active
<1> QED BY <1>2, <1>3 DEF LineageInit, LineageIInv, CommitsFollow, CommitsAlone, NoGap, ReceiptsNumbered,
      ReceiptsKept, LineageUnbroken

\* A commit begins on the newest file.
LEMMA BuildRecordKeeps ==
  ASSUME LineageIInv, NEW c \in Committers, BuildRecord(c)
  PROVE  LineageIInv'
<1>1. Present = 1..Newest /\ Newest \in 0..MaxCheckpoints /\ MaxCheckpoints \in Nat
  <2>1. GapFree
    BY NoGapIsGapFree DEF LineageIInv
  <2>2. IsFiniteSet(Present \cup {0}) /\ Present \cup {0} \subseteq 0..MaxCheckpoints
    <3>1. Present \cup {0} \subseteq 0..MaxCheckpoints
      BY LineageAssumption DEF Present, Numbers
    <3>2. IsFiniteSet(0..MaxCheckpoints)
      BY FS_Interval, LineageAssumption
    <3> QED BY <3>1, <3>2, FS_Subset
  <2>3. Newest \in Present \cup {0}
    BY <2>2, MaxIsGreatest DEF Newest
  <2> QED BY <2>1, <2>2, <2>3, LineageAssumption DEF GapFree
<1> DEFINE n == Newest + 1
           old == IF Newest = 0 THEN <<>> ELSE checkpoints[Newest]
<1>2. n \in Numbers /\ n \in Nat /\ n \notin Present
  BY <1>1 DEF BuildRecord, Numbers
<1>3. old \in Seq(Payloads) /\ Len(old) = Newest
  <2>1. CASE Newest = 0
    BY <2>1
  <2>2. CASE Newest # 0
    <3>1. Newest \in Numbers /\ Newest \in Present
      BY <1>1, <2>2 DEF Numbers
    <3>2. checkpoints[Newest] \in [1..Newest -> Payloads]
      BY <1>1, <2>2, <3>1 DEF BuildRecord, Present, LineageIInv, LineageTypes, LineageTypeOK
    <3> QED BY <1>1, <2>2, <3>2, SequenceOfLength
  <2> QED BY <2>1, <2>2
<1>4. PICK payload \in Payloads : record' = [record EXCEPT ![c] = Append(old, payload)]
  BY DEF BuildRecord
<1>5. /\ Append(old, payload) \in [1..n -> Payloads] /\ Len(Append(old, payload)) = n
      /\ Front(Append(old, payload)) = old
  <2> HIDE DEF old
  <2>1. /\ Append(old, payload) \in [1..(Len(old) + 1) -> Payloads]
        /\ Len(Append(old, payload)) = Len(old) + 1 /\ Front(Append(old, payload)) = old
    BY <1>3, AppendFront DEF Front
  <2> QED BY <1>3, <2>1
<1>6. /\ phase[c] = "IDLE" /\ phase' = [phase EXCEPT ![c] = "BUILT"]
      /\ contested' = contested \cup
           {m \in {n} : \E d \in Committers \ {c} : phase[d] # "IDLE" /\ Number(d) = m}
      /\ UNCHANGED <<checkpoints, temporary, handle, receipts>>
  BY DEF BuildRecord, Goto
<1>7. /\ record' \in [Committers -> Chains]
      /\ record'[c] = Append(old, payload) /\ \A d \in Committers \ {c} : record'[d] = record[d]
      /\ phase' \in [Committers -> {"IDLE", "BUILT", "OPENING", "FILLING", "RENAMING", "WRITTEN"}]
      /\ phase'[c] = "BUILT" /\ \A d \in Committers \ {c} : phase'[d] = phase[d]
  BY <1>2, <1>4, <1>5, <1>6, ChainFacts DEF LineageIInv, LineageTypes, LineageTypeOK
<1>8. Number(c)' = n /\ \A d \in Committers \ {c} : Number(d)' = Number(d) /\ (Active(d)' <=> Active(d))
  BY <1>5, <1>7 DEF Number, Active
<1>9. Present' = Present /\ contested \subseteq contested' /\ contested' \subseteq Numbers
  BY <1>2, <1>6 DEF Present, LineageIInv, LineageTypes, LineageTypeOK
<1>10. LineageTypes'
  BY <1>6, <1>7, <1>9 DEF LineageIInv, LineageTypes, LineageTypeOK
<1> HIDE DEF n, old
<1>11. CommitsFollow'
  <2>1. ASSUME NEW d \in Committers \ {c}, Active(d)
        PROVE  /\ Number(d) \in Numbers
               /\ \A m \in Numbers : m < Number(d) => m \in Present
               /\ Number(d) > 1 /\ Number(d) - 1 \notin contested' =>
                    checkpoints[Number(d) - 1] = Front(record[d])
    BY <1>9, <2>1 DEF LineageIInv, CommitsFollow
  <2>2. /\ \A m \in Numbers : m < n => m \in Present
        /\ n > 1 => checkpoints[n - 1] = Front(record'[c])
    BY <1>1, <1>5, <1>7 DEF n, old, Numbers
  <2> SUFFICES ASSUME NEW d \in Committers, Active(d)'
               PROVE  /\ Number(d)' \in Numbers
                      /\ \A m \in Numbers : m < Number(d)' => m \in Present
                      /\ Number(d)' > 1 /\ Number(d)' - 1 \notin contested' =>
                           checkpoints[Number(d)' - 1] = Front(record'[d])
    BY <1>6, <1>9 DEF CommitsFollow, Front
  <2>3. CASE d = c
    BY <1>2, <1>8, <2>2, <2>3
  <2>4. CASE d # c
    BY <1>7, <1>8, <2>1, <2>4
  <2> QED BY <2>3, <2>4
<1>12. CommitsAlone'
  <2> SUFFICES ASSUME NEW d \in Committers, Active(d)', Number(d)' \notin contested'
               PROVE  /\ \A e \in Committers : Active(e)' /\ Number(e)' = Number(d)' => e = d
                      /\ phase'[d] # "WRITTEN" => checkpoints'[Number(d)'] = Absent
                      /\ phase'[d] = "WRITTEN" => checkpoints'[Number(d)'] = record'[d]
                      /\ phase'[d] \in {"FILLING", "RENAMING"} => handle'[d] = "TMP"
                      /\ phase'[d] = "FILLING" => temporary'[Number(d)'] = Garbage
                      /\ phase'[d] = "RENAMING" => temporary'[Number(d)'] = record'[d]
    BY DEF CommitsAlone
  <2>1. \A e \in Committers \ {c} : Active(e) /\ Number(e) = n => n \in contested'
    BY <1>6 DEF Active
  <2>2. CASE d = c
    <3>1. checkpoints[n] = Absent
      BY <1>2 DEF Present
    <3> QED BY <1>6, <1>7, <1>8, <2>1, <2>2, <3>1
  <2>3. CASE d # c
    <3>1. Active(d) /\ Number(d)' = Number(d) /\ Number(d) \notin contested /\ Number(d) # n
      BY <1>8, <1>9, <2>1, <2>3
    <3> QED BY <1>6, <1>7, <1>8, <2>3, <3>1 DEF LineageIInv, CommitsAlone
  <2> QED BY <2>2, <2>3
<1>13. NoGap' /\ ReceiptsNumbered' /\ ReceiptsKept' /\ LineageUnbroken'
  BY <1>6, <1>9 DEF LineageIInv, NoGap, ReceiptsNumbered, ReceiptsKept, LineageUnbroken
<1> QED BY <1>10, <1>11, <1>12, <1>13 DEF LineageIInv

LEMMA LineageStep ==
  ASSUME LineageIInv, LineageNext
  PROVE  LineageIInv'
<1>1. PICK c \in Committers :
        \/ BuildRecord(c) \/ TestExists(c)
        \/ OpenTemporary(c) \/ FillTemporary(c) \/ Rename(c)
        \/ Verify(c) \/ StopCommit(c)
  BY DEF LineageNext
<1>2. /\ record[c] \in [1..Number(c) -> Payloads] /\ record[c] # Absent /\ record[c] # Garbage
      /\ Active(c) => Number(c) \in Numbers
      /\ handle \in [Committers -> {"TMP", "FINAL"}]
  BY CommitFacts DEF LineageIInv, LineageTypes, LineageTypeOK
<1>3. Active(c) /\ Number(c) \notin contested =>
        /\ phase[c] # "WRITTEN" => checkpoints[Number(c)] = Absent
        /\ phase[c] = "WRITTEN" => checkpoints[Number(c)] = record[c]
        /\ phase[c] \in {"FILLING", "RENAMING"} => handle[c] = "TMP"
        /\ phase[c] = "FILLING" => temporary[Number(c)] = Garbage
        /\ phase[c] = "RENAMING" => temporary[Number(c)] = record[c]
  BY DEF LineageIInv, CommitsAlone
<1>4. CASE TestExists(c)
  <2>1. PICK next \in {"IDLE", "OPENING", "WRITTEN"} :
          /\ Goto(c, next)
          /\ checkpoints[Number(c)] = Absent => next = "OPENING"
    BY <1>4 DEF TestExists
  <2>2. /\ Active(c) /\ phase[c] = "BUILT"
        /\ UNCHANGED <<checkpoints, record, contested>> /\ UNCHANGED <<temporary, handle, receipts>>
    BY <1>4 DEF TestExists, Active
  <2>3. Number(c) \notin contested /\ next # "IDLE" => next = "OPENING"
    BY <1>3, <2>1, <2>2
  <2>4. temporary' = temporary /\ handle' = handle /\ receipts' = receipts
    BY <2>2
  <2> QED BY <1>2, <1>3, <2>1, <2>2, <2>3, <2>4, CheckpointsKept
<1>5. CASE OpenTemporary(c)
  <2>1. /\ Active(c) /\ phase[c] = "OPENING" /\ Goto(c, "FILLING")
        /\ temporary' = [temporary EXCEPT ![Number(c)] = Garbage]
        /\ handle' = [handle EXCEPT ![c] = "TMP"]
        /\ UNCHANGED <<checkpoints, record, contested>> /\ UNCHANGED receipts
    BY <1>5 DEF OpenTemporary, Active
  <2>2. /\ handle' \in [Committers -> {"TMP", "FINAL"}] /\ handle'[c] = "TMP"
        /\ \A d \in Committers \ {c} : handle'[d] = handle[d]
    BY <1>2, <2>1
  <2>3. temporary'[Number(c)] = Garbage
    BY <1>2, <2>1 DEF LineageIInv, LineageTypes
  <2> QED BY <1>2, <1>3, <2>1, <2>2, <2>3, CheckpointsKept
<1>6. CASE FillTemporary(c)
  <2>1. /\ Active(c) /\ phase[c] = "FILLING" /\ Goto(c, "RENAMING")
        /\ UNCHANGED <<record, contested>> /\ UNCHANGED <<handle, receipts>>
    BY <1>6 DEF FillTemporary, Active
  <2>2. CASE handle[c] = "TMP"
    <3>1. PICK v \in Filled(c, temporary[Number(c)]) : temporary' = [temporary EXCEPT ![Number(c)] = v]
      BY <1>6, <2>2 DEF FillTemporary
    <3>2. UNCHANGED checkpoints
      BY <1>6, <2>2 DEF FillTemporary
    <3>3. v \in [1..Number(c) -> Payloads] \cup {Garbage}
      BY <1>2 DEF Filled
    <3>4. Number(c) \notin contested => v = record[c]
      BY <1>3, <2>1, <3>1 DEF Filled
    <3>5. temporary'[Number(c)] = v
      BY <1>2, <2>1, <3>1 DEF LineageIInv, LineageTypes
    <3> QED BY <1>2, <1>3, <2>1, <3>1, <3>2, <3>3, <3>4, <3>5, CheckpointsKept
  <2>3. CASE handle[c] # "TMP"
    <3>1. PICK v \in Filled(c, checkpoints[Number(c)]) : checkpoints' = [checkpoints EXCEPT ![Number(c)] = v]
      BY <1>6, <2>3 DEF FillTemporary
    <3>2. UNCHANGED temporary
      BY <1>6, <2>3 DEF FillTemporary
    <3>3. v \in [1..Number(c) -> Payloads] \cup {Garbage}
      BY <1>2 DEF Filled
    <3>4. Number(c) \in contested
      BY <1>3, <2>1, <2>3
    <3> QED BY <1>2, <2>1, <3>1, <3>2, <3>3, <3>4, CheckpointWritten
  <2> QED BY <2>2, <2>3
<1>7. CASE Rename(c)
  <2>1. Active(c) /\ phase[c] = "RENAMING" /\ UNCHANGED <<record, contested>> /\ UNCHANGED receipts
    BY <1>7 DEF Rename, Active
  <2>2. CASE temporary[Number(c)] = Absent
    <3>1. Goto(c, "IDLE") /\ UNCHANGED <<checkpoints, temporary, handle>>
      BY <1>7, <2>2 DEF Rename
    <3> QED BY <1>2, <2>1, <3>1, CheckpointsKept
  <2>3. CASE temporary[Number(c)] # Absent
    <3>1. /\ checkpoints' = [checkpoints EXCEPT ![Number(c)] = temporary[Number(c)]]
          /\ temporary' = [temporary EXCEPT ![Number(c)] = Absent]
          /\ handle' = [d \in Committers |-> IF Number(d) = Number(c) THEN "FINAL" ELSE handle[d]]
          /\ Goto(c, "WRITTEN")
      BY <1>7, <2>3 DEF Rename
    <3>2. temporary[Number(c)] \in [1..Number(c) -> Payloads] \cup {Garbage}
      BY <1>2, <2>1, <2>3 DEF LineageIInv, LineageTypes, LineageTypeOK
    <3>3. /\ handle' \in [Committers -> {"TMP", "FINAL"}]
          /\ \A d \in Committers : Number(d) # Number(c) => handle'[d] = handle[d]
      BY <1>2, <3>1
    <3>4. Number(c) \notin contested => temporary[Number(c)] = record[c]
      BY <1>3, <2>1
    <3> QED BY <2>1, <3>1, <3>2, <3>3, <3>4, CheckpointWritten
  <2> QED BY <2>2, <2>3
<1>8. CASE Verify(c)
  <2>1. receipts' = receipts \/ receipts' = receipts \cup {record[c]}
    BY <1>8 DEF Verify
  <2>2. /\ Active(c) /\ phase[c] = "WRITTEN" /\ Goto(c, "IDLE")
        /\ UNCHANGED <<checkpoints, record, contested>> /\ UNCHANGED <<temporary, handle>>
    BY <1>8 DEF Verify, Active
  <2> QED BY <1>2, <1>3, <2>1, <2>2, CheckpointsKept
<1>9. CASE StopCommit(c)
  <2>1. /\ Active(c) /\ Goto(c, "IDLE")
        /\ UNCHANGED <<checkpoints, record, contested>> /\ UNCHANGED <<temporary, handle, receipts>>
    BY <1>9 DEF StopCommit, Active
  <2> QED BY <1>2, <2>1, CheckpointsKept
<1> QED BY <1>1, <1>4, <1>5, <1>6, <1>7, <1>8, <1>9, BuildRecordKeeps

\* Whatever commits overlap or stop, receipts stay good and each checkpoint names its
\* parent where no two commits were for one number, and the numbers have no gap.
THEOREM LineageCorrect == LineageSpec => []LineageInv
<1>1. LineageIInv /\ UNCHANGED lineageVars => LineageIInv'
  BY DEF lineageVars, committer, LineageIInv, LineageTypes, LineageTypeOK, CommitsFollow, CommitsAlone,
    NoGap, ReceiptsNumbered, ReceiptsKept, LineageUnbroken, Present, Number, Active
<1>2. LineageIInv => LineageInv
  BY NoGapIsGapFree DEF LineageIInv, LineageInv, LineageTypes
<1> QED BY LineageInitInv, LineageStep, <1>1, <1>2, PTL DEF LineageSpec

(***************************************************************************)
(* EventJournal: the projection of a stream                                *)
(***************************************************************************)

FirstState(type) == IF type = "ASSERTION_GENESIS" THEN "ACTIVE" ELSE "ILLEGAL"

\* f is the projection of the history h, event by event.
Projection(f, h) ==
  f = [n \in 1..Len(h) |-> IF n = 1 THEN FirstState(h[1]) ELSE AfterEvent(f[n - 1], h[n])]

\* A projection of the first n events exists: by the least n for which none does.
LEMMA ProjectionExists ==
  ASSUME NEW h \in Seq(Types)
  PROVE  \E f : Projection(f, h)
<1> DEFINE Upto(f, n) ==
             f = [m \in 1..n |-> IF m = 1 THEN FirstState(h[1]) ELSE AfterEvent(f[m - 1], h[m])]
           Q == {n \in Nat : ~\E f : Upto(f, n)}
<1>1. CASE Q = {}
  <2>1. Len(h) \in Nat
    OBVIOUS
  <2> QED BY <1>1, <2>1 DEF Projection
<1>2. CASE Q # {}
  <2>1. PICK n \in Q : \A m \in Q : n <= m
    <3>1. Q \subseteq Nat
      OBVIOUS
    <3> HIDE DEF Q
    <3> QED BY <1>2, <3>1, LeastNatural
  <2>2. n # 0
    <3> SUFFICES \E f : Upto(f, 0)
      BY <2>1
    <3> WITNESS <<>>
    <3> QED OBVIOUS
  <2>3. n - 1 \in Nat /\ n - 1 \notin Q
    <3>1. n \in Nat
      BY <2>1
    <3> HIDE DEF Q
    <3> QED BY <2>1, <2>2, <3>1
  <2>4. PICK f : Upto(f, n - 1)
    BY <2>3
  <2> DEFINE g == [m \in 1..n |-> IF m = n THEN IF n = 1 THEN FirstState(h[1]) ELSE AfterEvent(f[n - 1], h[n])
                                           ELSE f[m]]
  <2>5. \A m \in 1..(n - 1) : g[m] = f[m] /\ f[m] = IF m = 1 THEN FirstState(h[1]) ELSE AfterEvent(f[m - 1], h[m])
    <3>1. \A m \in 1..(n - 1) : f[m] = IF m = 1 THEN FirstState(h[1]) ELSE AfterEvent(f[m - 1], h[m])
      BY <2>4
    <3>2. \A m \in 1..(n - 1) : m \in 1..n /\ m # n
      BY <2>1
    <3> QED BY <3>1, <3>2
  <2>6. \A m \in 1..n : g[m] = IF m = 1 THEN FirstState(h[1]) ELSE AfterEvent(g[m - 1], h[m])
    <3> TAKE m \in 1..n
    <3>1. CASE m = n
      <4>1. n # 1 => n - 1 \in 1..(n - 1) /\ n - 1 # n
        BY <2>1, <2>2
      <4> QED BY <2>1, <2>2, <2>5, <3>1, <4>1
    <3>2. CASE m # n
      <4>1. m \in 1..(n - 1) /\ (m # 1 => m - 1 \in 1..(n - 1))
        BY <2>1, <3>2
      <4> QED BY <2>5, <4>1
    <3> QED BY <3>1, <3>2
  <2>7. Upto(g, n)
    <3>1. g = [m \in 1..n |-> g[m]]
      OBVIOUS
    <3> HIDE DEF g
    <3> QED BY <2>6, <3>1
  <2> QED BY <2>1, <2>7
<1> QED BY <1>1, <1>2

LEMMA LifecycleIsProjected ==
  ASSUME NEW h \in Seq(Types), NEW s
  PROVE  \E f : Projection(f, h) /\ Lifecycle(<<s, h>>) = f[Len(h)]
<1> DEFINE F == CHOOSE f : Projection(f, h)
<1>1. Projection(F, h)
  BY ProjectionExists
<1>2. Lifecycle(<<s, h>>) = F[Len(h)]
  BY DEF Lifecycle, History, Projection, FirstState
<1> QED BY <1>1, <1>2

\* The effect of one more event, as project_assertion_stream comes to it.
LEMMA LifecycleOfAppend ==
  ASSUME NEW h \in Seq(Types), NEW s, NEW type \in Types
  PROVE  /\ Lifecycle(<<s, <<type>> >>) = FirstState(type)
         /\ h # <<>> => Lifecycle(<<s, Append(h, type)>>) = AfterEvent(Lifecycle(<<s, h>>), type)
<1>1. Lifecycle(<<s, <<type>> >>) = FirstState(type)
  <2>1. <<type>> \in Seq(Types) /\ Len(<<type>>) = 1 /\ <<type>>[1] = type
    OBVIOUS
  <2>2. PICK f : Projection(f, <<type>>) /\ Lifecycle(<<s, <<type>> >>) = f[1]
    BY <2>1, LifecycleIsProjected
  <2> QED BY <2>1, <2>2 DEF Projection
<1>2. ASSUME h # <<>> PROVE Lifecycle(<<s, Append(h, type)>>) = AfterEvent(Lifecycle(<<s, h>>), type)
  <2> DEFINE N == Len(h)
             k == Append(h, type)
  <2>1. /\ N \in Nat /\ N >= 1 /\ k \in Seq(Types) /\ Len(k) = N + 1
        /\ k[N + 1] = type /\ \A i \in 1..N : k[i] = h[i]
    BY <1>2, AppendProperties
  <2> HIDE DEF N, k
  <2>2. PICK f : Projection(f, h) /\ Lifecycle(<<s, h>>) = f[N]
    BY LifecycleIsProjected DEF N
  <2>3. PICK g : Projection(g, k) /\ Lifecycle(<<s, k>>) = g[N + 1]
    BY <2>1, LifecycleIsProjected
  <2>4. \A n \in 1..N : f[n] = IF n = 1 THEN FirstState(h[1]) ELSE AfterEvent(f[n - 1], h[n])
    BY <2>2 DEF Projection, N
  <2>5. \A n \in 1..(N + 1) : g[n] = IF n = 1 THEN FirstState(k[1]) ELSE AfterEvent(g[n - 1], k[n])
    BY <2>1, <2>3 DEF Projection
  <2> DEFINE Q == {n \in 1..N : g[n] # f[n]}
  <2>6. Q = {}
    <3> SUFFICES ASSUME Q # {} PROVE FALSE
      OBVIOUS
    <3>1. Q \subseteq Nat
      OBVIOUS
    <3>2. PICK n \in Q : \A m \in Q : n <= m
      <4> HIDE DEF Q
      <4> QED BY <3>1, LeastNatural
    <3>3. n \in 1..N /\ g[n] # f[n] /\ n \in 1..(N + 1)
      BY <2>1, <3>2
    <3>4. CASE n = 1
      BY <2>1, <2>4, <2>5, <3>3, <3>4
    <3>5. CASE n # 1
      <4>1. n - 1 \in 1..N /\ ~(n <= n - 1)
        BY <2>1, <3>3, <3>5
      <4>2. n - 1 \notin Q
        BY <3>2, <4>1
      <4>3. g[n - 1] = f[n - 1]
        BY <4>1, <4>2
      <4>4. k[n] = h[n]
        BY <2>1, <3>3
      <4> QED BY <2>4, <2>5, <3>3, <3>5, <4>3, <4>4
    <3> QED BY <3>4, <3>5
  <2>7. g[N] = f[N]
    <3>1. N \in 1..N
      BY <2>1
    <3> QED BY <2>6, <3>1
  <2>8. N + 1 \in 1..(N + 1) /\ N + 1 # 1 /\ (N + 1) - 1 = N
    BY <2>1
  <2>9. g[N + 1] = AfterEvent(g[N], k[N + 1])
    BY <2>5, <2>8
  <2> QED BY <2>1, <2>2, <2>3, <2>7, <2>9 DEF k
<1> QED BY <1>1, <1>2

(***************************************************************************)
(* EventJournal                                                            *)
(***************************************************************************)

Beginning(e, k) == <<Stream(e), SubSeq(History(e), 1, k)>>

\* A finite ledger in which every stream has its beginning.
Closed(L) ==
  /\ IsFiniteSet(L)
  /\ \A e \in L : \A k \in 1..Len(History(e)) : Beginning(e, k) \in L

LedgersClosed ==
  /\ IsFiniteSet(lines) /\ (torn = "NO" => Closed(lines))
  /\ checkpoint # NoLedger => Closed(checkpoint)
  /\ \A a \in Appenders : Closed(ledger[a])

\* An event in hand projects, and after its line it is all that the ledger has ahead.
EventsInHand ==
  \A a \in Appenders :
    /\ event[a] # NoEvent => Lifecycle(event[a]) # "ILLEGAL"
    /\ step[a] = "UNSEALED" =>
         ledger[a] \subseteq acked \cup {event[a]} /\ (torn = "NO" => event[a] \in lines)

\* Nobody gets past the seal of a journal that did not load while all was quiet.
StuckFrozen ==
  stuck => /\ ~Loadable
           /\ \A a \in Appenders :
                /\ step[a] \in {"IDLE", "SEAL_UNREAD"}
                /\ step[a] = "SEAL_UNREAD" => Readable /\ ledger[a] = lines

JournalIInv ==
  /\ JournalTypeOK
  /\ NothingAheadOfJournal
  /\ AcknowledgedProjects
  /\ LedgersClosed
  /\ EventsInHand
  /\ StuckFrozen

LEMMA EventParts ==
  ASSUME NEW e \in Events
  PROVE  /\ e = <<Stream(e), History(e)>> /\ Stream(e) \in Streams
         /\ History(e) \in Seq(Types) /\ Len(History(e)) \in Nat
         /\ Len(History(e)) >= 1 /\ Len(History(e)) <= MaxEvents
<1>1. PICK n \in 1..MaxEvents : History(e) \in [1..n -> Types]
  BY DEF Events, History
<1>2. n \in Nat /\ n >= 1 /\ n <= MaxEvents
  BY <1>1, JournalAssumption
<1>3. History(e) \in Seq(Types) /\ Len(History(e)) = n
  BY <1>1, <1>2, SequenceOfLength
<1>4. e = <<Stream(e), History(e)>> /\ Stream(e) \in Streams
  BY DEF Events, Stream, History
<1> QED BY <1>2, <1>3, <1>4

LEMMA PartsOfEvent ==
  ASSUME NEW s \in Streams, NEW h \in Seq(Types), Len(h) >= 1, Len(h) <= MaxEvents
  PROVE  <<s, h>> \in Events /\ Stream(<<s, h>>) = s /\ History(<<s, h>>) = h
<1>1. Len(h) \in 1..MaxEvents /\ h \in [1..Len(h) -> Types]
  BY LenProperties, JournalAssumption
<1> QED BY <1>1 DEF Events, Stream, History

\* append keeps a ledger closed: its guard asks for the prior event only.
LEMMA ClosedGrows ==
  ASSUME NEW K, NEW L, NEW e \in Events, Closed(K), Closed(L), K \subseteq L,
         Len(History(e)) > 1 => Prior(e) \in K
  PROVE  Closed(L \cup {e})
<1> DEFINE h == History(e)
           n == Len(h)
<1>1. h \in Seq(Types) /\ n \in Nat /\ n >= 1 /\ e = <<Stream(e), h>>
  BY EventParts
<1>2. ASSUME NEW k \in 1..n PROVE Beginning(e, k) \in L \cup {e}
  <2>1. CASE k = n
    <3>1. SubSeq(h, 1, n) = h
      BY <1>1
    <3> QED BY <1>1, <2>1, <3>1 DEF Beginning
  <2>2. CASE k # n
    <3> DEFINE q == SubSeq(h, 1, n - 1)
    <3>1. n > 1 /\ n - 1 \in 0..Len(h) /\ k \in 1..(n - 1) /\ k \in 0..Len(h)
      BY <1>1, <1>2, <2>2
    <3>2. /\ q \in Seq(Types) /\ Len(q) = n - 1
          /\ \A i \in 1..(n - 1) : q[i] = h[i]
      BY <1>1, <3>1, FirstMembers
    <3>3. Stream(Prior(e)) = Stream(e) /\ History(Prior(e)) = q
      BY DEF Prior, Stream, History
    <3>4. Beginning(Prior(e), k) \in K
      BY <3>1, <3>2, <3>3 DEF Closed
    <3> HIDE DEF h, n, q
    <3>5. SubSeq(q, 1, k) = SubSeq(h, 1, k)
      <4>1. k \in 0..Len(q)
        BY <1>1, <3>1, <3>2
      <4>2. /\ SubSeq(h, 1, k) \in Seq(Types) /\ Len(SubSeq(h, 1, k)) = k
            /\ \A i \in 1..k : SubSeq(h, 1, k)[i] = h[i]
        BY <1>1, <3>1, FirstMembers
      <4>3. /\ SubSeq(q, 1, k) \in Seq(Types) /\ Len(SubSeq(q, 1, k)) = k
            /\ \A i \in 1..k : SubSeq(q, 1, k)[i] = q[i]
        BY <3>2, <4>1, FirstMembers
      <4>4. \A i \in 1..k : q[i] = h[i]
        BY <1>1, <3>1, <3>2
      <4> QED BY <4>2, <4>3, <4>4, SeqEqual
    <3> QED BY <3>3, <3>4, <3>5 DEF Beginning, h
  <2> QED BY <2>1, <2>2
<1>3. IsFiniteSet(L \cup {e})
  BY FS_AddElement DEF Closed
<1> QED BY <1>2, <1>3 DEF Closed

\* A stream has as many events in a closed ledger as its last event counts.
LEMMA HistoryBounded ==
  ASSUME NEW L \in Ledgers, Closed(L), NEW e \in L
  PROVE  Cardinality(L) \in Nat /\ Len(History(e)) <= Cardinality(L)
<1> DEFINE h == History(e)
           n == Len(h)
           f == [k \in 1..n |-> Beginning(e, k)]
<1>1. h \in Seq(Types) /\ n \in Nat /\ n >= 1
  BY EventParts DEF Ledgers
<1>2. f \in [1..n -> L]
  BY DEF Closed
<1>3. ASSUME NEW j \in 1..n, NEW k \in 1..n, f[j] = f[k] PROVE j = k
  <2>1. SubSeq(h, 1, j) = SubSeq(h, 1, k)
    BY <1>3 DEF Beginning
  <2>2. j \in 0..Len(h) /\ k \in 0..Len(h)
    BY <1>1
  <2>3. Len(SubSeq(h, 1, j)) = j /\ Len(SubSeq(h, 1, k)) = k
    BY <1>1, <2>2, FirstMembers
  <2> QED BY <2>1, <2>3
<1>4. f \in Injection(1..n, L)
  <2> HIDE DEF f
  <2> QED BY <1>2, <1>3 DEF Injection, IsInjective
<1>5. Cardinality(1..n) = n
  BY <1>1, FS_Interval
<1>6. IsFiniteSet(L)
  BY DEF Closed
<1> HIDE DEF n, f
<1>7. Cardinality(1..n) <= Cardinality(L)
  BY <1>4, <1>6, FS_Injection
<1> QED BY <1>5, <1>6, <1>7, FS_CardinalityType DEF n

\* An event that the guards of enter_dormant, reappear, retire and supersede admit
\* projects, whatever ledger it was built on.
LEMMA BuildableProjects ==
  ASSUME JournalIInv, NEW a \in Appenders, Cardinality(ledger[a]) < MaxEvents,
         NEW e \in Buildable(a)
  PROVE  e \in Events /\ Lifecycle(e) # "ILLEGAL"
<1>1. ledger[a] \in Ledgers /\ Closed(ledger[a])
  BY DEF JournalIInv, JournalTypeOK, LedgersClosed
<1>2. CASE \E s \in Streams : e = <<s, <<"ASSERTION_GENESIS">> >>
  <2>1. PICK s \in Streams : e = <<s, <<"ASSERTION_GENESIS">> >>
    BY <1>2
  <2>2. "ASSERTION_GENESIS" \in Types
    BY DEF Types
  <2>3. <<"ASSERTION_GENESIS">> \in Seq(Types) /\ Len(<<"ASSERTION_GENESIS">>) = 1
    BY <2>2
  <2>4. IsFiniteSet(ledger[a])
    BY <1>1 DEF Closed
  <2>5. Cardinality(ledger[a]) \in Nat
    BY <2>4, FS_CardinalityType
  <2>6. 1 <= MaxEvents
    BY <2>5, JournalAssumption
  <2>7. e \in Events
    <3> DEFINE h == <<"ASSERTION_GENESIS">>
    <3>1. h \in Seq(Types) /\ Len(h) = 1 /\ e = <<s, h>>
      BY <2>1, <2>3
    <3> HIDE DEF h
    <3>2. Len(h) >= 1 /\ Len(h) <= MaxEvents
      BY <2>6, <3>1
    <3> QED BY <3>1, <3>2, PartsOfEvent
  <2>8. Lifecycle(e) = FirstState("ASSERTION_GENESIS")
    BY <2>1, <2>2, <2>3, LifecycleOfAppend
  <2> QED BY <2>7, <2>8 DEF FirstState
<1>3. CASE \E p \in ledger[a] \X Types :
             MayFollow(p[2], Lifecycle(p[1])) /\ e = <<Stream(p[1]), Append(History(p[1]), p[2])>>
  <2>1. PICK p \in ledger[a] \X Types :
             MayFollow(p[2], Lifecycle(p[1])) /\ e = <<Stream(p[1]), Append(History(p[1]), p[2])>>
    BY <1>3
  <2> DEFINE f == p[1]
             type == p[2]
  <2>2. f \in ledger[a] /\ type \in Types
    BY <2>1
  <2> HIDE DEF f, type
  <2>3. MayFollow(type, Lifecycle(f)) /\ e = <<Stream(f), Append(History(f), type)>>
    BY <2>1 DEF f, type
  <2>4. f \in Events
    BY <1>1, <2>2 DEF Ledgers
  <2>5. /\ f = <<Stream(f), History(f)>> /\ Stream(f) \in Streams
        /\ History(f) \in Seq(Types) /\ Len(History(f)) \in Nat /\ Len(History(f)) >= 1
    BY <2>4, EventParts
  <2>6. Cardinality(ledger[a]) \in Nat /\ Len(History(f)) <= Cardinality(ledger[a])
    BY <1>1, <2>2, HistoryBounded
  <2>7. /\ Append(History(f), type) \in Seq(Types)
        /\ Len(Append(History(f), type)) = Len(History(f)) + 1
    BY <2>2, <2>5, AppendProperties
  <2>8. e \in Events
    <3> DEFINE h == Append(History(f), type)
    <3>1. h \in Seq(Types) /\ Len(h) = Len(History(f)) + 1 /\ e = <<Stream(f), h>>
      BY <2>3, <2>7
    <3> HIDE DEF h
    <3>2. Len(h) >= 1 /\ Len(h) <= MaxEvents
      BY <2>5, <2>6, <3>1, JournalAssumption
    <3> QED BY <2>5, <3>1, <3>2, PartsOfEvent
  <2>9. History(f) # <<>>
    BY <2>5
  <2>10. Lifecycle(e) = AfterEvent(Lifecycle(f), type)
    BY <2>2, <2>3, <2>5, <2>9, LifecycleOfAppend
  <2>11. AfterEvent(Lifecycle(f), type) # "ILLEGAL"
    BY <2>2, <2>3 DEF MayFollow, AfterEvent, Types
  <2> QED BY <2>8, <2>10, <2>11
<1> QED BY <1>2, <1>3 DEF Buildable

LEMMA JournalInitInv == JournalInit => JournalIInv
<1> SUFFICES ASSUME JournalInit PROVE JournalIInv
  OBVIOUS
<1>1. JournalTypeOK
  BY DEF JournalInit, JournalTypeOK, Ledgers
<1>2. Closed({})
  BY FS_EmptySet DEF Closed
<1>3. LedgersClosed
  BY <1>2 DEF JournalInit, LedgersClosed, Closed
<1> QED BY <1>1, <1>3 DEF JournalInit, JournalIInv, NothingAheadOfJournal, AcknowledgedProjects,
  Projects, EventsInHand, StuckFrozen

JournalCore ==
  JournalTypeOK /\ NothingAheadOfJournal /\ AcknowledgedProjects /\ LedgersClosed /\ EventsInHand

LEMMA ReadEventsKeeps ==
  ASSUME JournalIInv, stuck' \in BOOLEAN, NEW a \in Appenders, NEW e, ReadEvents(a, e),
         e = NoEvent \/ (e \in Events /\ Lifecycle(e) # "ILLEGAL")
  PROVE  JournalCore'
<1> USE DEF JournalIInv, JournalTypeOK, ReadEvents, files
<1>1. JournalTypeOK'
  OBVIOUS
<1>2. NothingAheadOfJournal'
  BY DEF NothingAheadOfJournal
<1>3. AcknowledgedProjects'
  BY DEF AcknowledgedProjects, Projects
<1>4. LedgersClosed'
  BY DEF LedgersClosed, Closed, Readable
<1>5. EventsInHand'
  BY DEF EventsInHand
<1> QED BY <1>1, <1>2, <1>3, <1>4, <1>5 DEF JournalCore

LEMMA ReadSealKeeps ==
  ASSUME JournalIInv, stuck' \in BOOLEAN, NEW a \in Appenders, ReadSeal(a)
  PROVE  JournalCore'
<1> USE DEF JournalIInv, JournalTypeOK, ReadSeal, files, Raise, AfterLoad
<1>1. JournalTypeOK'
  BY DEF Ledgers
<1>2. NothingAheadOfJournal'
  BY DEF NothingAheadOfJournal, SealMatches
<1>3. AcknowledgedProjects'
  BY DEF AcknowledgedProjects, Projects
<1>4. LedgersClosed'
  BY FS_EmptySet DEF LedgersClosed, Closed
<1>5. EventsInHand'
  BY DEF EventsInHand
<1> QED BY <1>1, <1>2, <1>3, <1>4, <1>5 DEF JournalCore

LEMMA WriteLineKeeps ==
  ASSUME JournalIInv, stuck' \in BOOLEAN, NEW a \in Appenders, WriteLine(a)
  PROVE  JournalCore'
<1> USE DEF JournalIInv, JournalTypeOK, WriteLine
<1>0. event[a] \in Events /\ lines \in Ledgers /\ lines' \in Ledgers
  BY DEF Ledgers
<1>1. JournalTypeOK'
  BY <1>0 DEF Ledgers
<1>2. NothingAheadOfJournal'
  BY DEF NothingAheadOfJournal
<1>3. AcknowledgedProjects'
  BY DEF AcknowledgedProjects, Projects
<1>4. LedgersClosed'
  <2>1. Closed(ledger[a] \cup {event[a]})
    BY <1>0, ClosedGrows DEF LedgersClosed, Extends
  <2>2. IsFiniteSet(lines)
    BY DEF LedgersClosed
  <2>3. IsFiniteSet(lines')
    BY <2>2, FS_AddElement
  <2>4. ASSUME torn' = "NO" PROVE Closed(lines)'
    <3>1. torn = "NO" /\ lines' = lines \cup {event[a]}
      BY <2>4
    <3>2. ledger[a] \subseteq lines
      BY <3>1 DEF NothingAheadOfJournal
    <3>3. Closed(lines \cup {event[a]})
      BY <1>0, <3>1, <3>2, ClosedGrows DEF LedgersClosed, Extends
    <3> QED BY <3>1, <3>3 DEF Closed
  <2>5. \A b \in Appenders : ledger'[b] = IF b = a THEN ledger[a] \cup {event[a]} ELSE ledger[b]
    OBVIOUS
  <2>6. \A b \in Appenders : Closed(ledger'[b])
    BY <2>1, <2>5 DEF LedgersClosed
  <2> QED BY <2>3, <2>4, <2>6 DEF LedgersClosed, Closed
<1>5. EventsInHand'
  BY DEF EventsInHand, NothingAheadOfJournal
<1> QED BY <1>1, <1>2, <1>3, <1>4, <1>5 DEF JournalCore

LEMMA AlreadyAppendedKeeps ==
  ASSUME JournalIInv, stuck' \in BOOLEAN, NEW a \in Appenders, AlreadyAppended(a)
  PROVE  JournalCore'
<1> USE DEF JournalIInv, JournalTypeOK, AlreadyAppended, files
<1>1. JournalTypeOK'
  OBVIOUS
<1>2. NothingAheadOfJournal'
  BY DEF NothingAheadOfJournal
<1>3. AcknowledgedProjects'
  BY DEF AcknowledgedProjects, Projects
<1>4. LedgersClosed'
  BY DEF LedgersClosed, Closed
<1>5. EventsInHand'
  BY DEF EventsInHand, NothingAheadOfJournal
<1> QED BY <1>1, <1>2, <1>3, <1>4, <1>5 DEF JournalCore

LEMMA WriteSealKeeps ==
  ASSUME JournalIInv, stuck' \in BOOLEAN, NEW a \in Appenders, WriteSeal(a)
  PROVE  JournalCore'
<1> USE DEF JournalIInv, JournalTypeOK, WriteSeal, Raise
<1>0. event[a] \in Events /\ event[a] # NoEvent
  OBVIOUS
<1>1. JournalTypeOK'
  BY <1>0 DEF Ledgers
<1>2. NothingAheadOfJournal'
  BY DEF NothingAheadOfJournal, EventsInHand
<1>3. AcknowledgedProjects'
  BY DEF AcknowledgedProjects, Projects, EventsInHand
<1>4. LedgersClosed'
  BY DEF LedgersClosed, Closed
<1>5. EventsInHand'
  BY DEF EventsInHand
<1> QED BY <1>1, <1>2, <1>3, <1>4, <1>5 DEF JournalCore

\* The steps that end an operation, and those on checkpoints.
LEMMA OtherJournalStepsKeep ==
  ASSUME JournalIInv, stuck' \in BOOLEAN, NEW a \in Appenders,
         Quarantine(a) \/ Stop(a) \/ BuildCheckpoint(a) \/ RestoreCheckpoint(a)
  PROVE  JournalCore'
<1> USE DEF JournalIInv, JournalTypeOK, Quarantine, Stop, BuildCheckpoint, RestoreCheckpoint,
      Raise, files, appender
<1>1. JournalTypeOK'
  BY DEF Ledgers
<1>2. NothingAheadOfJournal'
  BY DEF NothingAheadOfJournal
<1>3. AcknowledgedProjects'
  BY DEF AcknowledgedProjects, Projects
<1>4. LedgersClosed'
  <2>0. Closed({})
    BY FS_EmptySet DEF Closed
  <2>1. CASE RestoreCheckpoint(a)
    BY <2>1 DEF LedgersClosed, Closed
  <2>2. CASE BuildCheckpoint(a)
    BY <2>2 DEF LedgersClosed, Closed
  <2>3. CASE Quarantine(a)
    BY <2>3 DEF LedgersClosed, Closed
  <2>4. CASE Stop(a)
    BY <2>0, <2>4 DEF LedgersClosed, Closed
  <2> QED BY <2>1, <2>2, <2>3, <2>4
<1>5. EventsInHand'
  BY DEF EventsInHand
<1> QED BY <1>1, <1>2, <1>3, <1>4, <1>5 DEF JournalCore

\* Stopped, frozen and reloaded as it may be, what is stuck stays so.
LEMMA StuckStaysFrozen ==
  ASSUME JournalIInv, JournalNext
  PROVE  StuckFrozen'
<1> SUFFICES ASSUME stuck' PROVE StuckFrozen'
  BY DEF StuckFrozen
<1>0. stuck \/ (Quiet' /\ ~Loadable')
  BY DEF JournalNext
<1>1. CASE Quiet' /\ ~Loadable'
  BY <1>1 DEF StuckFrozen, Quiet
<1>2. CASE stuck
  <2>1. /\ ~Loadable
        /\ \A a \in Appenders :
             /\ step[a] \in {"IDLE", "SEAL_UNREAD"}
             /\ step[a] = "SEAL_UNREAD" => Readable /\ ledger[a] = lines
    BY <1>2 DEF JournalIInv, StuckFrozen
  <2>2. PICK a \in Appenders :
       \/ LoadLedger(a) \/ AppendEvent(a) \/ ReadSeal(a)
       \/ WriteLine(a) \/ AlreadyAppended(a) \/ Quarantine(a) \/ WriteSeal(a)
       \/ Stop(a)
       \/ BuildCheckpoint(a) \/ RestoreCheckpoint(a)
    BY DEF JournalNext
  <2>3. step[a] # "LOADED" /\ step[a] # "UNSEALED"
    BY <2>1
  <2>4. files' = files
    BY <2>2, <2>3 DEF LoadLedger, AppendEvent, ReadEvents, ReadSeal, WriteLine, AlreadyAppended,
      Quarantine, WriteSeal, Stop, BuildCheckpoint, RestoreCheckpoint, files
  <2>5. ~Loadable'
    BY <2>1, <2>4 DEF Loadable, Readable, SealMatches, files
  <2>6. ASSUME NEW b \in Appenders
        PROVE  /\ step'[b] \in {"IDLE", "SEAL_UNREAD"}
               /\ step'[b] = "SEAL_UNREAD" => Readable' /\ ledger'[b] = lines'
    <3> USE DEF JournalIInv, JournalTypeOK
    <3>1. Readable' = Readable /\ lines' = lines
      BY <2>4 DEF files, Readable
    <3>2. CASE LoadLedger(a) \/ AppendEvent(a)
      <4>1. PICK e : ReadEvents(a, e)
        BY <3>2 DEF LoadLedger, AppendEvent
      <4> QED BY <2>1, <3>1, <4>1 DEF ReadEvents
    <3>3. CASE ReadSeal(a)
      <4>1. ~SealMatches(ledger[a])
        BY <2>1, <3>3 DEF ReadSeal, Loadable
      <4> QED BY <2>1, <3>1, <3>3, <4>1 DEF ReadSeal, Raise
    <3>4. CASE Stop(a) \/ BuildCheckpoint(a) \/ RestoreCheckpoint(a)
      BY <2>1, <3>1, <3>4 DEF Stop, BuildCheckpoint, RestoreCheckpoint, Raise, appender
    <3> QED BY <2>2, <2>3, <3>2, <3>3, <3>4 DEF WriteLine, AlreadyAppended, Quarantine, WriteSeal
  <2> QED BY <2>5, <2>6 DEF StuckFrozen
<1> QED BY <1>0, <1>1, <1>2

LEMMA JournalStep ==
  ASSUME JournalIInv, JournalNext
  PROVE  JournalIInv'
<1>1. PICK a \in Appenders :
       \/ LoadLedger(a) \/ AppendEvent(a) \/ ReadSeal(a)
       \/ WriteLine(a) \/ AlreadyAppended(a) \/ Quarantine(a) \/ WriteSeal(a)
       \/ Stop(a)
       \/ BuildCheckpoint(a) \/ RestoreCheckpoint(a)
  BY DEF JournalNext
<1>2. stuck' \in BOOLEAN
  BY DEF JournalNext
<1>3. JournalCore'
  <2>1. CASE LoadLedger(a)
    BY <1>2, <2>1, ReadEventsKeeps DEF LoadLedger
  <2>2. CASE AppendEvent(a)
    <3>1. PICK e \in Buildable(a) : ReadEvents(a, e) /\ Cardinality(ledger[a]) < MaxEvents
      BY <2>2 DEF AppendEvent
    <3>2. e \in Events /\ Lifecycle(e) # "ILLEGAL"
      BY <3>1, BuildableProjects
    <3> QED BY <1>2, <3>1, <3>2, ReadEventsKeeps
  <2> QED BY <1>1, <1>2, <2>1, <2>2, ReadSealKeeps, WriteLineKeeps, AlreadyAppendedKeeps,
       WriteSealKeeps, OtherJournalStepsKeep
<1>4. StuckFrozen'
  BY StuckStaysFrozen
<1> QED BY <1>3, <1>4 DEF JournalCore, JournalIInv

LEMMA JournalImplied == JournalIInv => JournalInv
<1> SUFFICES ASSUME JournalIInv PROVE JournalInv
  OBVIOUS
<1>1. LoadedIsAcknowledged
  BY DEF JournalIInv, JournalTypeOK, LoadedIsAcknowledged, NothingAheadOfJournal, Loadable,
    Readable, SealMatches, Ledgers
<1>2. SealedForEver
  BY DEF JournalIInv, StuckFrozen, SealedForEver
<1> QED BY <1>1, <1>2 DEF JournalIInv, JournalInv

\* However many appenders load, append, hand out checkpoints and stop between any two
\* steps of append_event: a journal that loads holds exactly what was acknowledged,
\* nothing runs ahead of it, every acknowledged stream projects, and a journal that
\* stopped loading while all was quiet never loads again.
THEOREM JournalCorrect == JournalSpec => []JournalInv
<1>1. JournalIInv /\ [JournalNext]_journalVars => JournalIInv'
  <2>1. JournalIInv /\ UNCHANGED journalVars => JournalIInv'
    BY DEF journalVars, files, appender, JournalIInv, JournalTypeOK, NothingAheadOfJournal,
      AcknowledgedProjects, Projects, LedgersClosed, Closed, EventsInHand, StuckFrozen, Loadable,
      Readable, SealMatches
  <2> QED BY <2>1, JournalStep
<1> QED BY <1>1, JournalInitInv, JournalImplied, PTL DEF JournalSpec

(***************************************************************************)
(* ResearchRecords                                                         *)
(***************************************************************************)

\* o has created its target and has not come to the end of its audit record.
Creator(o) == write[o] # NoWrite /\ ~Updates(o) /\ write[o].pc # "OPEN"

\* o has the temporary file of a draft in use.
Updating(o) == write[o] # NoWrite /\ Updates(o) /\ write[o].pc \in {"FILL", "RENAME"}

TmpTyped == \A d \in DOMAIN tmp : tmp[d] \in Contents \cup {Broken}

\* What a mutation is at exists from its first step on.
TargetsExist ==
  \A o \in Operators : write[o] # NoWrite =>
    /\ Updates(o) => write[o].target \in Drafts
    /\ Updates(o) \/ write[o].pc # "OPEN" => write[o].target \in DOMAIN disk
    /\ write[o].pc = "RENAME" => Updates(o)

\* O_EXCL lets one operator create an object, and it finds no audit record of a creation.
OneCreator ==
  \A o \in Operators : Creator(o) =>
    /\ \A p \in Operators : Creator(p) /\ write[p].target = write[o].target => p = o
    /\ \A p \in Audits : p[3] = write[o].target /\ p[2] # "UPDATE" =>
         write[o].pc = "AUDIT_FILL" /\ p = AuditPath(write[o])

\* A frozen record that is being created is nobody else's.
RecordsNew ==
  \A o \in Operators : Creator(o) /\ write[o].target \notin Drafts =>
    /\ write[o].target \notin unlucky
    /\ write[o].pc = "FILL" => disk[write[o].target] = Broken

\* An audit record under way is empty, and one operator's.
AuditsUnderWay ==
  \A o \in Operators : At(o, "AUDIT_FILL") =>
    /\ AuditPath(write[o]) \in DOMAIN disk /\ disk[AuditPath(write[o])] = Broken
    /\ \A p \in Operators : At(p, "AUDIT_FILL") /\ AuditPath(write[p]) = AuditPath(write[o]) => p = o

UpdatesOfDrafts == \A p \in Audits : p[2] = "UPDATE" => p[3] \in Drafts

\* An object that is neither audited nor unlucky has its creator.
UnauditedHasCreator ==
  \A object \in OnDisk :
    \/ Audited(object) \/ object \in unlucky
    \/ \E o \in Operators : Creator(o) /\ write[o].target = object

BrokenHasCreator ==
  \A d \in OnDisk \cap Drafts : disk[d] = Broken =>
    \/ d \in unlucky
    \/ \E o \in Operators : Creator(o) /\ write[o].pc = "FILL" /\ write[o].target = d

\* The temporary file of a draft whose updates have not met is what its one update left.
OneUpdate ==
  \A o \in Operators : Updating(o) /\ write[o].target \notin unlucky =>
    /\ \A p \in Operators : Updating(p) /\ write[p].target = write[o].target => p = o
    /\ write[o].target \in DOMAIN tmp
    /\ write[o].pc = "FILL" => hasOpen[o] = "TMP" /\ tmp[write[o].target] = Broken
    /\ write[o].pc = "RENAME" => tmp[write[o].target] = write[o].content

RecordsIInv ==
  /\ RecordsTypeOK
  /\ TmpTyped
  /\ TargetsExist
  /\ AuditHasObject
  /\ OneCreator
  /\ RecordsNew
  /\ AuditsUnderWay
  /\ UpdatesOfDrafts
  /\ UnauditedHasCreator
  /\ BrokenHasCreator
  /\ OneUpdate
  /\ OrphansStayUnaudited
  /\ unlucky \subseteq DOMAIN disk

LEMMA PathKinds ==
  /\ \A x \in Objects : x[1] # "audit"
  /\ \A x \in Drafts : x \in Objects
  /\ \A w : /\ AuditPath(w)[1] = "audit" /\ AuditPath(w)[2] = w.action
            /\ AuditPath(w)[3] = w.target /\ AuditPath(w) \notin Objects
<1>1. \A x \in Objects : x[1] # "audit"
  BY DEF Objects, Drafts, RootRecords, Successors, DraftPath, FrozenPath
<1>2. \A w : /\ AuditPath(w)[1] = "audit" /\ AuditPath(w)[2] = w.action
             /\ AuditPath(w)[3] = w.target
  BY DEF AuditPath
<1> QED BY <1>1, <1>2 DEF Objects

LEMMA WithEffect ==
  ASSUME NEW f, NEW path, NEW bytes
  PROVE  /\ DOMAIN With(f, path, bytes) = DOMAIN f \cup {path}
         /\ With(f, path, bytes)[path] = bytes
         /\ \A p \in DOMAIN f : p # path => With(f, path, bytes)[p] = f[p]
BY DEF With

WriteTyped == write \in [Operators -> Writes \cup {NoWrite}]

LEMMA WriteParts ==
  ASSUME WriteTyped, NEW o \in Operators, write[o] # NoWrite
  PROVE  /\ write[o] \in Writes /\ write[o].target \in Objects /\ write[o].content \in Contents
         /\ write[o].action \in {"CREATE", "UPDATE", "FREEZE", "SUPERSEDE"} /\ write[o].at \in Times
         /\ write[o].pc \in {"OPEN", "FILL", "RENAME", "AUDIT", "AUDIT_FILL"}
BY DEF WriteTyped, Writes

LEMMA ProceedEffect ==
  ASSUME WriteTyped, NEW o \in Operators, write[o] # NoWrite,
         NEW pc \in {"OPEN", "FILL", "RENAME", "AUDIT", "AUDIT_FILL"}, Proceed(o, pc)
  PROVE  /\ WriteTyped' /\ write'[o] # NoWrite /\ write'[o].pc = pc
         /\ write'[o].target = write[o].target /\ write'[o].action = write[o].action
         /\ write'[o].content = write[o].content /\ AuditPath(write'[o]) = AuditPath(write[o])
         /\ \A p \in Operators \ {o} : write'[p] = write[p]
<1> DEFINE w == [write[o] EXCEPT !.pc = pc]
<1>1. write[o] \in Writes
  BY WriteParts
<1>2. /\ w \in Writes /\ w.pc = pc /\ w.target = write[o].target /\ w.action = write[o].action
      /\ w.content = write[o].content /\ w.at = write[o].at
  BY <1>1 DEF Writes
<1>3. write' = [write EXCEPT ![o] = w]
  BY DEF Proceed
<1> HIDE DEF w
<1> QED BY <1>2, <1>3, RecordsAssumption DEF WriteTyped, AuditPath

LEMMA LeaveEffect ==
  ASSUME WriteTyped, NEW o \in Operators, Leave(o)
  PROVE  WriteTyped' /\ write'[o] = NoWrite /\ \A p \in Operators \ {o} : write'[p] = write[p]
BY DEF Leave, WriteTyped

\* A mutation begins: neither files nor creators change.
LEMMA StartKeeps ==
  ASSUME RecordsIInv, NEW o \in Operators,
         NEW action \in {"CREATE", "UPDATE", "FREEZE", "SUPERSEDE"}, NEW target \in Objects,
         NEW content \in Contents, NEW at \in Times, Start(o, action, target, content, at),
         action = "UPDATE" => target \in Drafts \cap DOMAIN disk
  PROVE  RecordsIInv'
<1> DEFINE w == [action |-> action, target |-> target, content |-> content, at |-> at, pc |-> "OPEN"]
<1>1. w \in Writes /\ w.action = action /\ w.target = target /\ w.pc = "OPEN"
  BY DEF Writes
<1>2. write' = [write EXCEPT ![o] = w] /\ UNCHANGED <<disk, tmp, hasOpen, unlucky>>
  BY DEF Start
<1> HIDE DEF w
<1>3. /\ WriteTyped' /\ write'[o] = w /\ write'[o] # NoWrite /\ write[o] = NoWrite
      /\ \A p \in Operators \ {o} : write'[p] = write[p]
  BY <1>1, <1>2, RecordsAssumption DEF RecordsIInv, RecordsTypeOK, WriteTyped, Start
<1>4. /\ Audits' = Audits /\ OnDisk' = OnDisk /\ \A x : Audited(x)' = Audited(x)
  BY <1>2 DEF Audits, OnDisk, Audited, Intact
<1>5. \A p \in Operators :
        /\ Creator(p)' <=> Creator(p)
        /\ Updating(p)' <=> Updating(p)
        /\ At(p, "AUDIT_FILL")' <=> At(p, "AUDIT_FILL")
        /\ Creator(p) \/ Updating(p) \/ At(p, "AUDIT_FILL") => p # o
  BY <1>1, <1>3 DEF Creator, Updating, At, Updates
<1>6. RecordsTypeOK'
  BY <1>2, <1>3, <1>4 DEF RecordsIInv, RecordsTypeOK, WriteTyped
<1>7. TmpTyped' /\ AuditHasObject' /\ UpdatesOfDrafts' /\ OrphansStayUnaudited'
      /\ (unlucky \subseteq DOMAIN disk)'
  BY <1>2, <1>4 DEF RecordsIInv, TmpTyped, AuditHasObject, UpdatesOfDrafts, OrphansStayUnaudited
<1>8. TargetsExist'
  BY <1>1, <1>2, <1>3 DEF RecordsIInv, TargetsExist, Updates
<1>9. OneCreator'
  BY <1>3, <1>4, <1>5 DEF RecordsIInv, OneCreator
<1>10. RecordsNew' /\ AuditsUnderWay'
  BY <1>2, <1>3, <1>5 DEF RecordsIInv, RecordsNew, AuditsUnderWay
<1>11. UnauditedHasCreator' /\ BrokenHasCreator'
  BY <1>2, <1>3, <1>4, <1>5 DEF RecordsIInv, UnauditedHasCreator, BrokenHasCreator
<1>12. OneUpdate'
  BY <1>2, <1>3, <1>5 DEF RecordsIInv, OneUpdate
<1> QED BY <1>6, <1>7, <1>8, <1>9, <1>10, <1>11, <1>12 DEF RecordsIInv

LEMMA CreatorUnaudited ==
  ASSUME RecordsIInv, NEW o \in Operators, Creator(o), write[o].target \notin Drafts
  PROVE  ~Audited(write[o].target)
<1> SUFFICES ASSUME NEW p \in Audits, Intact(p), p[3] = write[o].target PROVE FALSE
  BY DEF Audited
<1>1. p[2] # "UPDATE"
  BY DEF RecordsIInv, UpdatesOfDrafts
<1>2. write[o].pc = "AUDIT_FILL" /\ p = AuditPath(write[o])
  BY <1>1 DEF RecordsIInv, OneCreator
<1> QED BY <1>2 DEF RecordsIInv, AuditsUnderWay, At, Creator, Intact

\* A mutation ends without a step on files: a creator that does is stopped.
LEMMA DropKeeps ==
  ASSUME RecordsIInv, NEW o \in Operators, write[o] # NoWrite, Leave(o),
         UNCHANGED <<disk, tmp, hasOpen>>,
         unlucky' = unlucky \cup IF Creator(o) THEN {write[o].target} ELSE {}
  PROVE  RecordsIInv'
<1>1. WriteTyped
  BY DEF RecordsIInv, RecordsTypeOK, WriteTyped
<1>2. WriteTyped' /\ write'[o] = NoWrite /\ \A p \in Operators \ {o} : write'[p] = write[p]
  BY <1>1, LeaveEffect
<1>3. write[o].target \in Objects
  BY <1>1, WriteParts
<1>4. /\ Audits' = Audits /\ OnDisk' = OnDisk /\ \A x : Audited(x)' = Audited(x)
  BY DEF Audits, OnDisk, Audited, Intact
<1>5. \A p \in Operators :
        /\ Creator(p)' <=> Creator(p) /\ p # o
        /\ Updating(p)' <=> Updating(p) /\ p # o
        /\ At(p, "AUDIT_FILL")' <=> At(p, "AUDIT_FILL") /\ p # o
  BY <1>2 DEF Creator, Updating, At, Updates
<1>6. RecordsTypeOK'
  BY <1>2, <1>3, <1>4 DEF RecordsIInv, RecordsTypeOK, WriteTyped
<1>7. TmpTyped' /\ AuditHasObject' /\ UpdatesOfDrafts' /\ (unlucky \subseteq DOMAIN disk)'
  BY <1>4 DEF RecordsIInv, TmpTyped, AuditHasObject, UpdatesOfDrafts, TargetsExist, Creator
<1>8. OrphansStayUnaudited'
  BY <1>4, CreatorUnaudited DEF RecordsIInv, OrphansStayUnaudited
<1>9. TargetsExist'
  BY <1>2 DEF RecordsIInv, TargetsExist, Updates
<1>10. OneCreator'
  BY <1>2, <1>4, <1>5 DEF RecordsIInv, OneCreator
<1>11. RecordsNew' /\ AuditsUnderWay'
  BY <1>2, <1>5 DEF RecordsIInv, RecordsNew, AuditsUnderWay, OneCreator
<1>12. UnauditedHasCreator' /\ BrokenHasCreator'
  BY <1>2, <1>4, <1>5 DEF RecordsIInv, UnauditedHasCreator, BrokenHasCreator
<1>13. OneUpdate'
  BY <1>2, <1>5 DEF RecordsIInv, OneUpdate
<1> QED BY <1>6, <1>7, <1>8, <1>9, <1>10, <1>11, <1>12, <1>13 DEF RecordsIInv

LEMMA CreateExclusiveKeeps ==
  ASSUME RecordsIInv, NEW o \in Operators, CreateExclusive(o)
  PROVE  RecordsIInv'
<1> DEFINE x == write[o].target
<1>0. CASE Exists(x)
  BY <1>0, DropKeeps DEF CreateExclusive, At, Creator
<1>1. CASE ~Exists(x)
  <2>1. /\ write[o] # NoWrite /\ write[o].pc = "OPEN" /\ ~Updates(o)
        /\ x \notin DOMAIN disk /\ Proceed(o, "FILL") /\ disk' = With(disk, x, Broken)
        /\ UNCHANGED <<tmp, hasOpen, unlucky>>
    BY <1>1 DEF CreateExclusive, At, Exists
  <2>2. WriteTyped
    BY DEF RecordsIInv, RecordsTypeOK, WriteTyped
  <2>3. /\ WriteTyped' /\ write'[o] # NoWrite /\ write'[o].pc = "FILL"
        /\ write'[o].target = x /\ write'[o].action = write[o].action
        /\ \A p \in Operators \ {o} : write'[p] = write[p]
    BY <2>1, <2>2, ProceedEffect
  <2>4. x \in Objects
    BY <2>1, <2>2, WriteParts
  <2>5. /\ DOMAIN disk' = DOMAIN disk \cup {x} /\ disk'[x] = Broken
        /\ \A p \in DOMAIN disk : p # x /\ disk'[p] = disk[p]
    <3> HIDE DEF x
    <3>1. disk' = With(disk, x, Broken) /\ x \notin DOMAIN disk
      BY <2>1
    <3> QED BY <3>1 DEF With
  <2> HIDE DEF x
  <2>6. Audits' = Audits /\ OnDisk' = OnDisk \cup {x} /\ \A y : Audited(y)' <=> Audited(y)
    BY <2>4, <2>5, PathKinds DEF Audits, OnDisk, Audited, Intact
  <2>7. \A p \in Operators :
          /\ Creator(p)' <=> Creator(p) \/ p = o
          /\ Updating(p)' <=> Updating(p)
          /\ At(p, "AUDIT_FILL")' <=> At(p, "AUDIT_FILL")
          /\ Creator(p) \/ Updating(p) \/ At(p, "AUDIT_FILL") => p # o
          /\ Creator(p) => write[p].target # x
    BY <2>1, <2>3 DEF Creator, Updating, At, Updates, RecordsIInv, TargetsExist
  <2>8. RecordsTypeOK'
    BY <2>1, <2>3, <2>5, <2>6 DEF RecordsIInv, RecordsTypeOK, WriteTyped
  <2>9. TmpTyped' /\ AuditHasObject' /\ UpdatesOfDrafts' /\ (unlucky \subseteq DOMAIN disk)'
    BY <2>1, <2>5, <2>6 DEF RecordsIInv, TmpTyped, AuditHasObject, UpdatesOfDrafts
  <2>10. OrphansStayUnaudited'
    BY <2>1, <2>6 DEF RecordsIInv, OrphansStayUnaudited
  <2>11. TargetsExist'
    BY <2>1, <2>3, <2>5 DEF RecordsIInv, TargetsExist, Updates
  <2>12. OneCreator'
    <3>1. \A p \in Audits : p[3] # x
      BY <2>1 DEF RecordsIInv, AuditHasObject, OnDisk
    <3> QED BY <2>3, <2>6, <2>7, <3>1 DEF RecordsIInv, OneCreator
  <2>13. RecordsNew'
    <3>1. \A p \in Operators : Creator(p) => write[p].target \in DOMAIN disk
      BY DEF RecordsIInv, TargetsExist, Creator
    <3> QED BY <2>1, <2>3, <2>5, <2>7, <3>1 DEF RecordsIInv, RecordsNew
  <2>14. AuditsUnderWay'
    BY <2>1, <2>3, <2>5, <2>7 DEF RecordsIInv, AuditsUnderWay
  <2>15. UnauditedHasCreator'
    <3> SUFFICES ASSUME NEW y \in OnDisk'
                 PROVE  \/ Audited(y)' \/ y \in unlucky'
                        \/ \E p \in Operators : Creator(p)' /\ write'[p].target = y
      BY DEF UnauditedHasCreator
    <3>1. CASE y = x
      BY <2>3, <2>7, <3>1
    <3>2. CASE y # x
      BY <2>1, <2>3, <2>6, <2>7, <3>2 DEF RecordsIInv, UnauditedHasCreator
    <3> QED BY <3>1, <3>2
  <2>16. BrokenHasCreator'
    BY <2>1, <2>3, <2>5, <2>6, <2>7 DEF RecordsIInv, BrokenHasCreator, OnDisk
  <2>17. OneUpdate'
    BY <2>1, <2>3, <2>7 DEF RecordsIInv, OneUpdate
  <2> QED BY <2>8, <2>9, <2>10, <2>11, <2>12, <2>13, <2>14, <2>15, <2>16, <2>17 DEF RecordsIInv
<1> QED BY <1>0, <1>1

\* Bytes written to an object that exists leave paths and audit trail alone.
LEMMA ObjectWritten ==
  ASSUME NEW x \in Objects, x \in DOMAIN disk, NEW bytes, disk' = With(disk, x, bytes)
  PROVE  /\ DOMAIN disk' = DOMAIN disk /\ disk'[x] = bytes
         /\ \A p \in DOMAIN disk : p # x => disk'[p] = disk[p]
         /\ Audits' = Audits /\ OnDisk' = OnDisk
         /\ \A p \in Audits : p # x
         /\ \A y : Audited(y)' <=> Audited(y)
<1>1. /\ DOMAIN disk' = DOMAIN disk /\ disk'[x] = bytes
      /\ \A p \in DOMAIN disk : p # x => disk'[p] = disk[p]
  BY DEF With
<1>2. Audits' = Audits /\ OnDisk' = OnDisk /\ \A p \in Audits : p # x
  BY <1>1, PathKinds DEF Audits, OnDisk
<1>3. \A p \in Audits : Intact(p)' <=> Intact(p)
  BY <1>1, <1>2 DEF Intact, Audits
<1> QED BY <1>1, <1>2, <1>3 DEF Audited

LEMMA FillExclusiveKeeps ==
  ASSUME RecordsIInv, NEW o \in Operators, FillExclusive(o)
  PROVE  RecordsIInv'
<1> DEFINE x == write[o].target
           c == write[o].content
<1>1. /\ write[o] # NoWrite /\ write[o].pc = "FILL" /\ ~Updates(o) /\ Proceed(o, "AUDIT")
      /\ disk' = With(disk, x, c) /\ UNCHANGED <<tmp, hasOpen, unlucky>>
  BY DEF FillExclusive, At
<1>2. WriteTyped
  BY DEF RecordsIInv, RecordsTypeOK, WriteTyped
<1>3. /\ WriteTyped' /\ write'[o] # NoWrite /\ write'[o].pc = "AUDIT"
      /\ write'[o].target = x /\ write'[o].action = write[o].action
      /\ \A p \in Operators \ {o} : write'[p] = write[p]
  BY <1>1, <1>2, ProceedEffect
<1>4. x \in Objects /\ x \in DOMAIN disk /\ c \in Contents /\ c # Broken
  BY <1>1, <1>2, WriteParts, RecordsAssumption DEF RecordsIInv, TargetsExist
<1> HIDE DEF x, c
<1>5. /\ DOMAIN disk' = DOMAIN disk /\ disk'[x] = c
      /\ \A p \in DOMAIN disk : p # x => disk'[p] = disk[p]
      /\ Audits' = Audits /\ OnDisk' = OnDisk
      /\ \A y : Audited(y)' <=> Audited(y)
  BY <1>1, <1>4, ObjectWritten
<1>6. \A p \in Operators :
        /\ Creator(p)' <=> Creator(p)
        /\ Updating(p)' <=> Updating(p)
        /\ At(p, "AUDIT_FILL")' <=> At(p, "AUDIT_FILL")
        /\ Updating(p) \/ At(p, "AUDIT_FILL") => p # o
        /\ write'[p].target = write[p].target
        /\ Creator(p) /\ p # o => write[p].target # x
  <2>1. Creator(o) /\ Creator(o)'
    BY <1>1, <1>3 DEF Creator, Updates
  <2> QED BY <1>1, <1>3, <2>1 DEF Creator, Updating, At, Updates, RecordsIInv, OneCreator, x
<1>7. RecordsTypeOK'
  BY <1>1, <1>3, <1>4, <1>5 DEF RecordsIInv, RecordsTypeOK, WriteTyped
<1>8. /\ TmpTyped' /\ AuditHasObject' /\ UpdatesOfDrafts' /\ OrphansStayUnaudited'
      /\ (unlucky \subseteq DOMAIN disk)'
  BY <1>1, <1>5 DEF RecordsIInv, TmpTyped, AuditHasObject, UpdatesOfDrafts, OrphansStayUnaudited
<1>9. TargetsExist'
  BY <1>1, <1>3, <1>4, <1>5 DEF RecordsIInv, TargetsExist, Updates
<1>10. OneCreator'
  BY <1>1, <1>3, <1>5, <1>6 DEF RecordsIInv, OneCreator
<1>11. RecordsNew'
  <2>1. \A p \in Operators : Creator(p) => write[p].target \in DOMAIN disk
    BY DEF RecordsIInv, TargetsExist, Creator
  <2> QED BY <1>1, <1>3, <1>5, <1>6, <2>1 DEF RecordsIInv, RecordsNew
<1>12. AuditsUnderWay'
  <2>1. \A p \in Operators : AuditPath(write[p]) # x
    BY <1>4, PathKinds
  <2> QED BY <1>3, <1>5, <1>6, <2>1 DEF RecordsIInv, AuditsUnderWay
<1>13. UnauditedHasCreator'
  BY <1>1, <1>5, <1>6 DEF RecordsIInv, UnauditedHasCreator
<1>14. BrokenHasCreator'
  BY <1>1, <1>3, <1>4, <1>5, <1>6 DEF RecordsIInv, BrokenHasCreator, OnDisk, x
<1>15. OneUpdate'
  BY <1>1, <1>3, <1>6 DEF RecordsIInv, OneUpdate
<1> QED BY <1>7, <1>8, <1>9, <1>10, <1>11, <1>12, <1>13, <1>14, <1>15 DEF RecordsIInv

LEMMA OpenTmpKeeps ==
  ASSUME RecordsIInv, NEW o \in Operators, OpenTmp(o)
  PROVE  RecordsIInv'
<1> DEFINE x == write[o].target
<1>1. /\ write[o] # NoWrite /\ write[o].pc = "OPEN" /\ Updates(o) /\ Proceed(o, "FILL")
      /\ tmp' = With(tmp, x, Broken) /\ hasOpen' = [hasOpen EXCEPT ![o] = "TMP"] /\ disk' = disk
      /\ unlucky' = unlucky \cup IF Collides(o) THEN {x} ELSE {}
  BY DEF OpenTmp, At
<1>2. WriteTyped
  BY DEF RecordsIInv, RecordsTypeOK, WriteTyped
<1>3. /\ WriteTyped' /\ write'[o] # NoWrite /\ write'[o].pc = "FILL"
      /\ write'[o].target = x /\ write'[o].action = write[o].action
      /\ \A p \in Operators \ {o} : write'[p] = write[p]
  BY <1>1, <1>2, ProceedEffect
<1>4. x \in Objects /\ x \in DOMAIN disk /\ x \in Drafts
  BY <1>1, <1>2, WriteParts DEF RecordsIInv, TargetsExist
<1>5. Collides(o) <=> \E p \in Operators \ {o} : Updating(p) /\ write[p].target = x
  BY DEF Collides, Updating
<1> HIDE DEF x
<1>6. /\ DOMAIN tmp' = DOMAIN tmp \cup {x} /\ tmp'[x] = Broken
      /\ \A p \in DOMAIN tmp : p # x => tmp'[p] = tmp[p]
      /\ hasOpen'[o] = "TMP" /\ \A p \in Operators \ {o} : hasOpen'[p] = hasOpen[p]
  BY <1>1 DEF With, RecordsIInv, RecordsTypeOK
<1>7. /\ Audits' = Audits /\ OnDisk' = OnDisk /\ \A y : Audited(y)' <=> Audited(y)
  BY <1>1 DEF Audits, OnDisk, Audited, Intact
<1>8. \A p \in Operators :
        /\ Creator(p)' <=> Creator(p)
        /\ Updating(p)' <=> Updating(p) \/ p = o
        /\ At(p, "AUDIT_FILL")' <=> At(p, "AUDIT_FILL")
        /\ Creator(p) \/ Updating(p) \/ At(p, "AUDIT_FILL") => p # o
  BY <1>1, <1>3 DEF Creator, Updating, At, Updates
<1>9. RecordsTypeOK'
  BY <1>1, <1>3, <1>4, <1>6, <1>7 DEF RecordsIInv, RecordsTypeOK, WriteTyped
<1>10. TmpTyped' /\ AuditHasObject' /\ UpdatesOfDrafts' /\ (unlucky \subseteq DOMAIN disk)'
  BY <1>1, <1>4, <1>6, <1>7 DEF RecordsIInv, TmpTyped, AuditHasObject, UpdatesOfDrafts
<1>11. OrphansStayUnaudited'
  BY <1>1, <1>4, <1>7 DEF RecordsIInv, OrphansStayUnaudited
<1>12. TargetsExist'
  BY <1>1, <1>3, <1>4 DEF RecordsIInv, TargetsExist, Updates
<1>13. OneCreator'
  BY <1>3, <1>7, <1>8 DEF RecordsIInv, OneCreator
<1>14. RecordsNew' /\ AuditsUnderWay'
  BY <1>1, <1>3, <1>4, <1>8 DEF RecordsIInv, RecordsNew, AuditsUnderWay
<1>15. UnauditedHasCreator' /\ BrokenHasCreator'
  BY <1>1, <1>3, <1>7, <1>8 DEF RecordsIInv, UnauditedHasCreator, BrokenHasCreator
<1>16. OneUpdate'
  <2> SUFFICES ASSUME NEW p \in Operators, Updating(p)', write'[p].target \notin unlucky'
               PROVE  /\ \A q \in Operators : Updating(q)' /\ write'[q].target = write'[p].target => q = p
                      /\ write'[p].target \in DOMAIN tmp'
                      /\ write'[p].pc = "FILL" => hasOpen'[p] = "TMP" /\ tmp'[write'[p].target] = Broken
                      /\ write'[p].pc = "RENAME" => tmp'[write'[p].target] = write'[p].content
    BY DEF OneUpdate
  <2>1. CASE p = o
    BY <1>1, <1>3, <1>5, <1>6, <1>8, <2>1
  <2>2. CASE p # o
    <3>1. write'[p] = write[p] /\ Updating(p) /\ write[p].target \notin unlucky
      BY <1>1, <1>3, <1>8, <2>2
    <3>2. write[p].target # x
      BY <1>1, <1>5, <2>2, <3>1
    <3> QED BY <1>3, <1>6, <1>8, <2>2, <3>1, <3>2 DEF RecordsIInv, OneUpdate
  <2> QED BY <2>1, <2>2
<1> QED BY <1>9, <1>10, <1>11, <1>12, <1>13, <1>14, <1>15, <1>16 DEF RecordsIInv

LEMMA FillTmpKeeps ==
  ASSUME RecordsIInv, NEW o \in Operators, FillTmp(o)
  PROVE  RecordsIInv'
<1> DEFINE x == write[o].target
           c == write[o].content
<1>1. /\ write[o] # NoWrite /\ write[o].pc = "FILL" /\ Updates(o) /\ Proceed(o, "RENAME")
      /\ UNCHANGED <<hasOpen, unlucky>>
  BY DEF FillTmp, At
<1>2. WriteTyped
  BY DEF RecordsIInv, RecordsTypeOK, WriteTyped
<1>3. /\ WriteTyped' /\ write'[o] # NoWrite /\ write'[o].pc = "RENAME"
      /\ write'[o].target = x /\ write'[o].action = write[o].action /\ write'[o].content = c
      /\ \A p \in Operators \ {o} : write'[p] = write[p]
  BY <1>1, <1>2, ProceedEffect
<1>4. x \in Objects /\ x \in DOMAIN disk /\ x \in Drafts /\ c \in Contents
  BY <1>1, <1>2, WriteParts DEF RecordsIInv, TargetsExist
<1>5. Updating(o)
  BY <1>1 DEF Updating
<1>6. PICK old, bytes :
        /\ bytes \in Overwritten(o, old)
        /\ IF hasOpen[o] = "TMP" THEN old = tmp[x] /\ tmp' = With(tmp, x, bytes) /\ disk' = disk
                                 ELSE old = disk[x] /\ disk' = With(disk, x, bytes) /\ tmp' = tmp
  BY DEF FillTmp
<1>7. bytes \in Contents \cup {Broken} /\ (old = Broken => bytes = c)
  BY <1>4, <1>6 DEF Overwritten
<1> HIDE DEF x, c
<1>8. \A p \in Operators :
        /\ Creator(p)' <=> Creator(p)
        /\ Updating(p)' <=> Updating(p)
        /\ At(p, "AUDIT_FILL")' <=> At(p, "AUDIT_FILL")
        /\ Creator(p) \/ At(p, "AUDIT_FILL") => p # o
        /\ write'[p].target = write[p].target
  BY <1>1, <1>3 DEF Creator, Updating, At, Updates, x
<1>9. /\ DOMAIN disk' = DOMAIN disk /\ Audits' = Audits /\ OnDisk' = OnDisk
      /\ \A p \in DOMAIN disk : p # x => disk'[p] = disk[p]
      /\ disk'[x] \in Contents \cup {Broken} /\ (x \notin unlucky => disk'[x] = disk[x])
      /\ \A y : Audited(y)' <=> Audited(y)
  <2>1. CASE hasOpen[o] = "TMP"
    <3>1. disk' = disk
      BY <1>6, <2>1
    <3> QED BY <1>4, <3>1 DEF Audits, OnDisk, Audited, Intact, RecordsIInv, RecordsTypeOK
  <2>2. CASE hasOpen[o] # "TMP"
    <3>1. disk' = With(disk, x, bytes)
      BY <1>6, <2>2
    <3>2. x \in unlucky
      BY <1>1, <1>5, <2>2 DEF RecordsIInv, OneUpdate, x
    <3> QED BY <1>4, <1>7, <3>1, <3>2, ObjectWritten
  <2> QED BY <2>1, <2>2
<1>10. /\ DOMAIN tmp' \subseteq DOMAIN tmp \cup {x} /\ DOMAIN tmp \subseteq DOMAIN tmp'
       /\ \A p \in DOMAIN tmp : p # x => tmp'[p] = tmp[p]
       /\ x \in DOMAIN tmp' => tmp'[x] \in Contents \cup {Broken}
       /\ x \notin unlucky => x \in DOMAIN tmp' /\ tmp'[x] = c
  <2>1. CASE hasOpen[o] = "TMP"
    <3>1. tmp' = With(tmp, x, bytes) /\ old = tmp[x]
      BY <1>6, <2>1
    <3>2. DOMAIN tmp' = DOMAIN tmp \cup {x} /\ tmp'[x] = bytes
          /\ \A p \in DOMAIN tmp : p # x => tmp'[p] = tmp[p]
      BY <3>1 DEF With
    <3>3. x \notin unlucky => tmp[x] = Broken
      BY <1>1, <1>5 DEF RecordsIInv, OneUpdate, x
    <3> QED BY <1>7, <3>1, <3>2, <3>3
  <2>2. CASE hasOpen[o] # "TMP"
    <3>1. tmp' = tmp
      BY <1>6, <2>2
    <3>2. x \in unlucky
      BY <1>1, <1>5, <2>2 DEF RecordsIInv, OneUpdate, x
    <3> QED BY <3>1, <3>2 DEF RecordsIInv, TmpTyped
  <2> QED BY <2>1, <2>2
<1>11. RecordsTypeOK'
  BY <1>1, <1>3, <1>4, <1>9, <1>10 DEF RecordsIInv, RecordsTypeOK, WriteTyped
<1>12. /\ TmpTyped' /\ AuditHasObject' /\ UpdatesOfDrafts' /\ OrphansStayUnaudited'
       /\ (unlucky \subseteq DOMAIN disk)'
  BY <1>1, <1>9, <1>10 DEF RecordsIInv, TmpTyped, AuditHasObject, UpdatesOfDrafts, OrphansStayUnaudited
<1>13. TargetsExist'
  BY <1>1, <1>3, <1>4, <1>9 DEF RecordsIInv, TargetsExist, Updates
<1>14. OneCreator'
  BY <1>3, <1>8, <1>9 DEF RecordsIInv, OneCreator
<1>15. RecordsNew'
  <2>1. \A p \in Operators : Creator(p) => write[p].target \in DOMAIN disk
    BY DEF RecordsIInv, TargetsExist, Creator
  <2> QED BY <1>1, <1>3, <1>4, <1>8, <1>9, <2>1 DEF RecordsIInv, RecordsNew
<1>16. AuditsUnderWay'
  <2>1. \A p \in Operators : AuditPath(write[p]) # x
    BY <1>4, PathKinds
  <2> QED BY <1>3, <1>8, <1>9, <2>1 DEF RecordsIInv, AuditsUnderWay
<1>17. UnauditedHasCreator'
  BY <1>1, <1>8, <1>9 DEF RecordsIInv, UnauditedHasCreator
<1>18. BrokenHasCreator'
  BY <1>1, <1>3, <1>8, <1>9 DEF RecordsIInv, BrokenHasCreator, OnDisk
<1>19. OneUpdate'
  BY <1>1, <1>3, <1>5, <1>8, <1>10 DEF RecordsIInv, OneUpdate, x
<1> QED BY <1>11, <1>12, <1>13, <1>14, <1>15, <1>16, <1>17, <1>18, <1>19 DEF RecordsIInv

LEMMA RenameTmpKeeps ==
  ASSUME RecordsIInv, NEW o \in Operators, RenameTmp(o)
  PROVE  RecordsIInv'
<1> DEFINE x == write[o].target
           c == write[o].content
<1>1. write[o] # NoWrite /\ write[o].pc = "RENAME" /\ Updates(o) /\ unlucky' = unlucky
  BY DEF RenameTmp, At, RecordsIInv, TargetsExist
<1>2. CASE x \notin DOMAIN tmp
  <2>1. Leave(o) /\ UNCHANGED <<disk, tmp, hasOpen>> /\ ~Creator(o)
    BY <1>1, <1>2 DEF RenameTmp, Creator
  <2> QED BY <1>1, <2>1, DropKeeps
<1>3. CASE x \in DOMAIN tmp
  <2>1. /\ Proceed(o, "AUDIT") /\ disk' = With(disk, x, tmp[x])
        /\ tmp' = Restrict(tmp, DOMAIN tmp \ {x})
        /\ hasOpen' = [p \in Operators |->
                         IF write[p] # NoWrite /\ write[p].target = x THEN "FINAL" ELSE hasOpen[p]]
    BY <1>3 DEF RenameTmp
  <2>2. WriteTyped
    BY DEF RecordsIInv, RecordsTypeOK, WriteTyped
  <2>3. /\ WriteTyped' /\ write'[o] # NoWrite /\ write'[o].pc = "AUDIT"
        /\ write'[o].target = x /\ write'[o].action = write[o].action
        /\ \A p \in Operators \ {o} : write'[p] = write[p]
    BY <1>1, <2>1, <2>2, ProceedEffect
  <2>4. x \in Objects /\ x \in DOMAIN disk /\ x \in Drafts /\ c # Broken
    BY <1>1, <2>2, WriteParts, RecordsAssumption DEF RecordsIInv, TargetsExist
  <2>5. Updating(o) /\ tmp[x] \in Contents \cup {Broken} /\ (x \notin unlucky => tmp[x] = c)
    BY <1>1, <1>3 DEF Updating, RecordsIInv, TmpTyped, OneUpdate
  <2> HIDE DEF x, c
  <2>6. /\ DOMAIN disk' = DOMAIN disk /\ disk'[x] = tmp[x]
        /\ \A p \in DOMAIN disk : p # x => disk'[p] = disk[p]
        /\ Audits' = Audits /\ OnDisk' = OnDisk
        /\ \A y : Audited(y)' <=> Audited(y)
    BY <2>1, <2>4, ObjectWritten
  <2>7. /\ DOMAIN tmp' = DOMAIN tmp \ {x} /\ \A p \in DOMAIN tmp \ {x} : tmp'[p] = tmp[p]
    BY <2>1 DEF Restrict
  <2>8. \A p \in Operators :
          /\ Creator(p)' <=> Creator(p)
          /\ Updating(p)' <=> Updating(p) /\ p # o
          /\ At(p, "AUDIT_FILL")' <=> At(p, "AUDIT_FILL")
          /\ Creator(p) \/ At(p, "AUDIT_FILL") => p # o
          /\ write'[p].target = write[p].target
    BY <1>1, <2>3 DEF Creator, Updating, At, Updates, x
  <2>9. RecordsTypeOK'
    BY <1>1, <2>1, <2>3, <2>5, <2>6, <2>7 DEF RecordsIInv, RecordsTypeOK, WriteTyped
  <2>10. /\ TmpTyped' /\ AuditHasObject' /\ UpdatesOfDrafts' /\ OrphansStayUnaudited'
         /\ (unlucky \subseteq DOMAIN disk)'
    BY <1>1, <2>6, <2>7 DEF RecordsIInv, TmpTyped, AuditHasObject, UpdatesOfDrafts, OrphansStayUnaudited
  <2>11. TargetsExist'
    BY <1>1, <2>3, <2>4, <2>6 DEF RecordsIInv, TargetsExist, Updates
  <2>12. OneCreator'
    BY <2>3, <2>6, <2>8 DEF RecordsIInv, OneCreator
  <2>13. RecordsNew'
    <3>1. \A p \in Operators : Creator(p) => write[p].target \in DOMAIN disk
      BY DEF RecordsIInv, TargetsExist, Creator
    <3> QED BY <1>1, <2>3, <2>4, <2>6, <2>8, <3>1 DEF RecordsIInv, RecordsNew
  <2>14. AuditsUnderWay'
    <3>1. \A p \in Operators : AuditPath(write[p]) # x
      BY <2>4, PathKinds
    <3> QED BY <2>3, <2>6, <2>8, <3>1 DEF RecordsIInv, AuditsUnderWay
  <2>15. UnauditedHasCreator'
    BY <1>1, <2>6, <2>8 DEF RecordsIInv, UnauditedHasCreator
  <2>16. BrokenHasCreator'
    BY <1>1, <2>3, <2>4, <2>5, <2>6, <2>8 DEF RecordsIInv, BrokenHasCreator, OnDisk
  <2>17. OneUpdate'
    <3> SUFFICES ASSUME NEW p \in Operators, Updating(p)', write'[p].target \notin unlucky'
                 PROVE  /\ \A q \in Operators : Updating(q)' /\ write'[q].target = write'[p].target => q = p
                        /\ write'[p].target \in DOMAIN tmp'
                        /\ write'[p].pc = "FILL" => hasOpen'[p] = "TMP" /\ tmp'[write'[p].target] = Broken
                        /\ write'[p].pc = "RENAME" => tmp'[write'[p].target] = write'[p].content
      BY DEF OneUpdate
    <3>1. p # o /\ write'[p] = write[p] /\ Updating(p) /\ write[p].target \notin unlucky
      BY <1>1, <2>3, <2>8
    <3>2. write[p].target # x
      BY <2>5, <3>1 DEF RecordsIInv, OneUpdate, x
    <3>3. hasOpen'[p] = hasOpen[p]
      BY <2>1, <3>2
    <3> QED BY <2>3, <2>7, <2>8, <3>1, <3>2, <3>3 DEF RecordsIInv, OneUpdate
  <2> QED BY <2>9, <2>10, <2>11, <2>12, <2>13, <2>14, <2>15, <2>16, <2>17 DEF RecordsIInv
<1> QED BY <1>2, <1>3

LEMMA CreateAuditKeeps ==
  ASSUME RecordsIInv, NEW o \in Operators, CreateAudit(o)
  PROVE  RecordsIInv'
<1> DEFINE x == write[o].target
           a == AuditPath(write[o])
<1>1. /\ write[o] # NoWrite /\ write[o].pc = "AUDIT" /\ UNCHANGED <<tmp, hasOpen, unlucky>>
      /\ IF Exists(a) THEN Leave(o) /\ disk' = disk
                      ELSE Proceed(o, "AUDIT_FILL") /\ disk' = With(disk, a, Broken)
  BY DEF CreateAudit, At
<1>2. a[1] = "audit" /\ a[2] = write[o].action /\ a[3] = x /\ a \notin Objects
  BY PathKinds
<1>3. CASE Exists(a)
  <2>1. ~Creator(o)
    <3> SUFFICES ASSUME Creator(o) PROVE FALSE
      OBVIOUS
    <3>1. a \in Audits /\ a[3] = write[o].target /\ a[2] # "UPDATE"
      BY <1>2, <1>3 DEF Exists, Audits, Creator, Updates
    <3> QED BY <1>1, <3>1 DEF RecordsIInv, OneCreator
  <2> QED BY <1>1, <1>3, <2>1, DropKeeps
<1>4. CASE ~Exists(a)
  <2>1. Proceed(o, "AUDIT_FILL") /\ disk' = With(disk, a, Broken) /\ a \notin DOMAIN disk
    BY <1>1, <1>4 DEF Exists
  <2>2. WriteTyped
    BY DEF RecordsIInv, RecordsTypeOK, WriteTyped
  <2>3. /\ WriteTyped' /\ write'[o] # NoWrite /\ write'[o].pc = "AUDIT_FILL"
        /\ write'[o].target = x /\ write'[o].action = write[o].action
        /\ AuditPath(write'[o]) = a /\ \A p \in Operators \ {o} : write'[p] = write[p]
    BY <1>1, <2>1, <2>2, ProceedEffect
  <2>4. x \in Objects /\ x \in DOMAIN disk
    BY <1>1, <2>2, WriteParts DEF RecordsIInv, TargetsExist
  <2>5. /\ a[2] = "UPDATE" => Updates(o) /\ x \in Drafts
        /\ Creator(o) => a[2] # "UPDATE"
    BY <1>1, <1>2 DEF RecordsIInv, TargetsExist, Updates, Creator
  <2> HIDE DEF x, a
  <2>6. /\ DOMAIN disk' = DOMAIN disk \cup {a} /\ disk'[a] = Broken
        /\ \A p \in DOMAIN disk : p # a /\ disk'[p] = disk[p]
    BY <2>1 DEF With
  <2>7. Audits' = Audits \cup {a} /\ OnDisk' = OnDisk
    BY <1>2, <2>6 DEF Audits, OnDisk
  <2>8. \A y : Audited(y)' <=> Audited(y)
    <3>1. /\ \A p \in Audits : Intact(p)' <=> Intact(p)
          /\ \A p : p = a => ~Intact(p)'
      BY <2>6 DEF Intact, Audits
    <3> QED BY <2>7, <3>1 DEF Audited
  <2>9. \A p \in Operators :
          /\ Creator(p)' <=> Creator(p)
          /\ Updating(p)' <=> Updating(p)
          /\ At(p, "AUDIT_FILL")' <=> At(p, "AUDIT_FILL") \/ p = o
          /\ Updating(p) \/ At(p, "AUDIT_FILL") => p # o
          /\ write'[p].target = write[p].target
    BY <1>1, <2>3 DEF Creator, Updating, At, Updates, x
  <2>10. RecordsTypeOK'
    BY <1>1, <2>3, <2>6, <2>7 DEF RecordsIInv, RecordsTypeOK, WriteTyped
  <2>11. TmpTyped' /\ OrphansStayUnaudited' /\ (unlucky \subseteq DOMAIN disk)'
    BY <1>1, <2>6, <2>8 DEF RecordsIInv, TmpTyped, OrphansStayUnaudited
  <2>12. AuditHasObject' /\ UpdatesOfDrafts'
    BY <1>2, <2>4, <2>5, <2>7 DEF RecordsIInv, AuditHasObject, UpdatesOfDrafts, OnDisk
  <2>13. TargetsExist'
    <3> SUFFICES ASSUME NEW p \in Operators, write'[p] # NoWrite
                 PROVE  /\ Updates(p)' => write'[p].target \in Drafts
                        /\ Updates(p)' \/ write'[p].pc # "OPEN" => write'[p].target \in DOMAIN disk'
                        /\ write'[p].pc = "RENAME" => Updates(p)'
      BY DEF TargetsExist
    <3>1. CASE p = o
      BY <1>1, <1>2, <2>3, <2>4, <2>5, <2>6, <3>1 DEF Updates
    <3>2. CASE p # o
      BY <2>3, <2>6, <3>2 DEF RecordsIInv, TargetsExist, Updates
    <3> QED BY <3>1, <3>2
  <2>14. OneCreator'
    <3> SUFFICES ASSUME NEW p \in Operators, Creator(p)'
                 PROVE  /\ \A q \in Operators : Creator(q)' /\ write'[q].target = write'[p].target => q = p
                        /\ \A q \in Audits' : q[3] = write'[p].target /\ q[2] # "UPDATE" =>
                             write'[p].pc = "AUDIT_FILL" /\ q = AuditPath(write'[p])
      BY DEF OneCreator
    <3>1. \A q \in Operators : Creator(q)' /\ write'[q].target = write'[p].target => q = p
      BY <2>9 DEF RecordsIInv, OneCreator
    <3>2. ASSUME NEW q \in Audits', q[3] = write'[p].target, q[2] # "UPDATE"
          PROVE  write'[p].pc = "AUDIT_FILL" /\ q = AuditPath(write'[p])
      <4>1. CASE q = a
        <5>1. Creator(o)
          BY <1>1, <1>2, <3>2, <4>1 DEF Creator, Updates
        <5>2. p = o
          BY <1>2, <2>9, <3>2, <4>1, <5>1 DEF RecordsIInv, OneCreator, x
        <5> QED BY <2>3, <4>1, <5>2
      <4>2. CASE q # a
        <5>1. q \in Audits /\ Creator(p) /\ q[3] = write[p].target
          BY <2>7, <2>9, <3>2, <4>2
        <5>2. write[p].pc = "AUDIT_FILL" /\ q = AuditPath(write[p])
          BY <3>2, <5>1 DEF RecordsIInv, OneCreator
        <5> QED BY <1>1, <2>3, <5>2
      <4> QED BY <4>1, <4>2
    <3> QED BY <3>1, <3>2
  <2>15. RecordsNew'
    <3>1. \A p \in Operators : Creator(p) => write[p].target \in DOMAIN disk
      BY DEF RecordsIInv, TargetsExist, Creator
    <3> QED BY <1>1, <2>3, <2>6, <2>9, <3>1 DEF RecordsIInv, RecordsNew
  <2>16. AuditsUnderWay'
    BY <2>1, <2>3, <2>6, <2>9 DEF RecordsIInv, AuditsUnderWay
  <2>17. UnauditedHasCreator'
    BY <1>1, <2>7, <2>8, <2>9 DEF RecordsIInv, UnauditedHasCreator
  <2>18. BrokenHasCreator'
    BY <1>1, <2>3, <2>6, <2>7, <2>9 DEF RecordsIInv, BrokenHasCreator, OnDisk
  <2>19. OneUpdate'
    BY <1>1, <2>3, <2>9 DEF RecordsIInv, OneUpdate
  <2> QED BY <2>10, <2>11, <2>12, <2>13, <2>14, <2>15, <2>16, <2>17, <2>18, <2>19 DEF RecordsIInv
<1> QED BY <1>3, <1>4

LEMMA FillAuditKeeps ==
  ASSUME RecordsIInv, NEW o \in Operators, FillAudit(o)
  PROVE  RecordsIInv'
<1> DEFINE x == write[o].target
           a == AuditPath(write[o])
           c == write[o].content
<1>1. /\ write[o] # NoWrite /\ write[o].pc = "AUDIT_FILL" /\ UNCHANGED <<tmp, hasOpen, unlucky>>
      /\ Leave(o) /\ disk' = With(disk, a, c)
  BY DEF FillAudit, At
<1>2. a[1] = "audit" /\ a[2] = write[o].action /\ a[3] = x /\ a \notin Objects
  BY PathKinds
<1>3. WriteTyped
  BY DEF RecordsIInv, RecordsTypeOK, WriteTyped
<1>4. /\ WriteTyped' /\ write'[o] = NoWrite /\ \A p \in Operators \ {o} : write'[p] = write[p]
  BY <1>1, <1>3, LeaveEffect
<1>5. x \in Objects /\ x \in DOMAIN disk /\ c \in Contents /\ c # Broken
  BY <1>1, <1>3, WriteParts, RecordsAssumption DEF RecordsIInv, TargetsExist
<1>6. a \in DOMAIN disk /\ disk[a] = Broken
  BY <1>1 DEF RecordsIInv, AuditsUnderWay, At
<1>7. x \notin Drafts => x \notin unlucky
  BY <1>1 DEF RecordsIInv, RecordsNew, TargetsExist, Creator
<1>8. \A p \in Operators : At(p, "AUDIT_FILL") /\ AuditPath(write[p]) = a => p = o
  BY <1>1 DEF RecordsIInv, AuditsUnderWay, At
<1> HIDE DEF x, a, c
<1>9. /\ DOMAIN disk' = DOMAIN disk /\ disk'[a] = c
      /\ \A p \in DOMAIN disk : p # a => disk'[p] = disk[p]
  BY <1>1, <1>6 DEF With
<1>10. Audits' = Audits /\ OnDisk' = OnDisk /\ a \in Audits
  BY <1>2, <1>6, <1>9 DEF Audits, OnDisk
<1>11. \A y : Audited(y)' <=> Audited(y) \/ y = x
  <2>1. /\ \A p \in Audits : p # a => (Intact(p)' <=> Intact(p))
        /\ \A p : p = a => Intact(p)' /\ ~Intact(p)
    BY <1>5, <1>6, <1>9 DEF Intact, Audits
  <2> QED BY <1>2, <1>10, <2>1 DEF Audited
<1>12. \A p \in Operators :
         /\ Creator(p)' <=> Creator(p) /\ p # o
         /\ Updating(p)' <=> Updating(p)
         /\ At(p, "AUDIT_FILL")' <=> At(p, "AUDIT_FILL") /\ p # o
         /\ Updating(p) => p # o
  BY <1>1, <1>4 DEF Creator, Updating, At, Updates
<1>13. RecordsTypeOK'
  BY <1>1, <1>4, <1>5, <1>9, <1>10 DEF RecordsIInv, RecordsTypeOK, WriteTyped
<1>14. /\ TmpTyped' /\ AuditHasObject' /\ UpdatesOfDrafts' /\ (unlucky \subseteq DOMAIN disk)'
  BY <1>1, <1>9, <1>10 DEF RecordsIInv, TmpTyped, AuditHasObject, UpdatesOfDrafts
<1>15. OrphansStayUnaudited'
  BY <1>1, <1>7, <1>11 DEF RecordsIInv, OrphansStayUnaudited
<1>16. TargetsExist'
  BY <1>4, <1>9 DEF RecordsIInv, TargetsExist, Updates
<1>17. OneCreator'
  BY <1>4, <1>10, <1>12 DEF RecordsIInv, OneCreator
<1>18. RecordsNew'
  <2>1. \A p \in Operators : Creator(p) => write[p].target \in Objects
    BY <1>3, WriteParts DEF Creator
  <2>2. \A p \in Operators : Creator(p) => write[p].target \in DOMAIN disk
    BY DEF RecordsIInv, TargetsExist, Creator
  <2> QED BY <1>1, <1>2, <1>4, <1>9, <1>12, <2>1, <2>2 DEF RecordsIInv, RecordsNew
<1>19. AuditsUnderWay'
  BY <1>4, <1>8, <1>9, <1>12 DEF RecordsIInv, AuditsUnderWay
<1>20. UnauditedHasCreator'
  BY <1>1, <1>4, <1>10, <1>11, <1>12 DEF RecordsIInv, UnauditedHasCreator, x
<1>21. BrokenHasCreator'
  BY <1>1, <1>2, <1>4, <1>9, <1>10, <1>12 DEF RecordsIInv, BrokenHasCreator, OnDisk
<1>22. OneUpdate'
  BY <1>1, <1>4, <1>12 DEF RecordsIInv, OneUpdate
<1> QED BY <1>13, <1>14, <1>15, <1>16, <1>17, <1>18, <1>19, <1>20, <1>21, <1>22 DEF RecordsIInv

LEMMA HaltKeeps ==
  ASSUME RecordsIInv, NEW o \in Operators, Halt(o)
  PROVE  RecordsIInv'
<1>1. write[o] # NoWrite /\ (Creator(o) <=> ~(Updates(o) \/ At(o, "OPEN")))
  BY DEF Halt, Creator, At
<1>2. unlucky' = unlucky \cup IF Creator(o) THEN {write[o].target} ELSE {}
  BY <1>1 DEF Halt
<1> QED BY <1>1, <1>2, DropKeeps DEF Halt

LEMMA RecordsInitInv == RecordsInit => RecordsIInv
<1> SUFFICES ASSUME RecordsInit PROVE RecordsIInv
  OBVIOUS
<1>1. /\ DOMAIN disk = {} /\ DOMAIN tmp = {} /\ unlucky = {} /\ OnDisk = {} /\ Audits = {}
      /\ \A o \in Operators : write[o] = NoWrite
  BY DEF RecordsInit, OnDisk, Audits
<1>2. RecordsTypeOK
  BY <1>1 DEF RecordsInit, RecordsTypeOK
<1>3. \A o \in Operators : ~Creator(o) /\ ~Updating(o) /\ ~At(o, "AUDIT_FILL")
  BY <1>1 DEF Creator, Updating, At
<1>4. TmpTyped /\ TargetsExist /\ AuditHasObject /\ UpdatesOfDrafts /\ OrphansStayUnaudited
  BY <1>1 DEF TmpTyped, TargetsExist, AuditHasObject, UpdatesOfDrafts, OrphansStayUnaudited
<1>5. /\ OneCreator /\ RecordsNew /\ AuditsUnderWay /\ UnauditedHasCreator /\ BrokenHasCreator
      /\ OneUpdate
  BY <1>1, <1>3 DEF OneCreator, RecordsNew, AuditsUnderWay, UnauditedHasCreator, BrokenHasCreator,
    OneUpdate
<1> QED BY <1>1, <1>2, <1>4, <1>5 DEF RecordsIInv

LEMMA RecordsStep ==
  ASSUME RecordsIInv, RecordsNext
  PROVE  RecordsIInv'
<1>1. PICK o \in Operators :
        \/ CreateDraft(o) \/ UpdateDraft(o) \/ FreezeDraft(o) \/ FreezeNew(o) \/ Supersede(o)
        \/ CreateExclusive(o) \/ FillExclusive(o)
        \/ OpenTmp(o) \/ FillTmp(o) \/ RenameTmp(o)
        \/ CreateAudit(o) \/ FillAudit(o) \/ Halt(o)
  BY DEF RecordsNext
<1>2. CASE CreateDraft(o)
  <2>1. PICK c \in Contents, t \in Times : Start(o, "CREATE", DraftPath(c), c, t)
    BY <1>2 DEF CreateDraft
  <2>2. DraftPath(c) \in Objects
    BY DEF Objects, Drafts
  <2> QED BY <2>1, <2>2, StartKeeps
<1>3. CASE UpdateDraft(o)
  <2>1. PICK d \in Drafts \cap DOMAIN disk, c \in Contents, t \in Times : Start(o, "UPDATE", d, c, t)
    BY <1>3 DEF UpdateDraft
  <2>2. d \in Objects
    BY DEF Objects
  <2> QED BY <2>1, <2>2, StartKeeps
<1>4. CASE FreezeDraft(o)
  <2>1. PICK d \in Drafts \cap DOMAIN disk, t \in Times :
          disk[d] # Broken /\ Start(o, "FREEZE", FrozenPath(disk[d], t, Missing), disk[d], t)
    BY <1>4 DEF FreezeDraft
  <2>2. disk[d] \in Contents
    BY <2>1 DEF RecordsIInv, RecordsTypeOK
  <2>3. FrozenPath(disk[d], t, Missing) \in Objects
    BY <2>2 DEF Objects, RootRecords
  <2> QED BY <2>1, <2>2, <2>3, StartKeeps
<1>5. CASE FreezeNew(o)
  <2>1. PICK c \in Contents, t \in Times : Start(o, "FREEZE", FrozenPath(c, t, Missing), c, t)
    BY <1>5 DEF FreezeNew
  <2>2. FrozenPath(c, t, Missing) \in Objects
    BY DEF Objects, RootRecords
  <2> QED BY <2>1, <2>2, StartKeeps
<1>6. CASE Supersede(o)
  <2>1. PICK r \in RootRecords \cap DOMAIN disk, c \in Contents, t \in Times :
          Start(o, "SUPERSEDE", FrozenPath(c, t, r), c, t)
    BY <1>6 DEF Supersede
  <2>2. FrozenPath(c, t, r) \in Objects
    BY DEF Objects, Successors
  <2> QED BY <2>1, <2>2, StartKeeps
<1> QED BY <1>1, <1>2, <1>3, <1>4, <1>5, <1>6, CreateExclusiveKeeps, FillExclusiveKeeps, OpenTmpKeeps,
  FillTmpKeeps, RenameTmpKeeps, CreateAuditKeeps, FillAuditKeeps, HaltKeeps

LEMMA RecordsImplied == RecordsIInv => RecordsInv
<1> SUFFICES ASSUME RecordsIInv PROVE RecordsInv
  OBVIOUS
<1>1. MutationsAudited
  BY DEF RecordsIInv, UnauditedHasCreator, MutationsAudited, UnderWay, Creator
<1>2. DraftsReadable
  BY DEF RecordsIInv, BrokenHasCreator, DraftsReadable, UnderWay, Creator, Intact, OnDisk
<1> QED BY <1>1, <1>2 DEF RecordsIInv, RecordsInv

LEMMA RecordsInduction == RecordsSpec => []RecordsIInv
<1>1. RecordsIInv /\ [RecordsNext]_recordVars => RecordsIInv'
  <2>1. RecordsIInv /\ UNCHANGED recordVars => RecordsIInv'
    BY DEF recordVars, RecordsIInv, RecordsTypeOK, TmpTyped, TargetsExist, AuditHasObject, OneCreator,
      RecordsNew, AuditsUnderWay, UpdatesOfDrafts, UnauditedHasCreator, BrokenHasCreator, OneUpdate,
      OrphansStayUnaudited, Creator, Updating, Updates, At, Audits, OnDisk, Audited, Intact
  <2> QED BY <2>1, RecordsStep
<1> QED BY <1>1, RecordsInitInv, PTL DEF RecordsSpec

\* Whatever number of operators write, and stop, at any of their steps: an audit record
\* is about something that exists, what is unaudited has its writer or was stopped, a
\* draft is readable unless its updates met in the one temporary file, and a record
\* whose writer stopped never gets its audit record.
THEOREM RecordsCorrect == RecordsSpec => []RecordsInv
BY RecordsInduction, RecordsImplied, PTL

\* No step of any operator changes a frozen record or an audit record that is whole.
THEOREM FrozenStaysImmutable == RecordsSpec => FrozenImmutable
<1> DEFINE Kept == \A p \in DOMAIN disk \ Drafts : Intact(p) => p \in DOMAIN disk' /\ disk'[p] = disk[p]
<1>1. ASSUME RecordsIInv, RecordsNext PROVE Kept
  <2>1. PICK o \in Operators :
          \/ CreateDraft(o) \/ UpdateDraft(o) \/ FreezeDraft(o) \/ FreezeNew(o) \/ Supersede(o)
          \/ CreateExclusive(o) \/ FillExclusive(o)
          \/ OpenTmp(o) \/ FillTmp(o) \/ RenameTmp(o)
          \/ CreateAudit(o) \/ FillAudit(o) \/ Halt(o)
    BY <1>1 DEF RecordsNext
  <2> SUFFICES \/ disk' = disk
               \/ \E x, bytes : disk' = With(disk, x, bytes)
                                /\ (x \in DOMAIN disk /\ x \notin Drafts => disk[x] = Broken)
    BY DEF With, Intact
  <2>2. CASE CreateDraft(o) \/ UpdateDraft(o) \/ FreezeDraft(o) \/ FreezeNew(o) \/ Supersede(o)
    BY <2>2 DEF CreateDraft, UpdateDraft, FreezeDraft, FreezeNew, Supersede, Start
  <2>3. CASE CreateExclusive(o)
    BY <2>3 DEF CreateExclusive, Exists
  <2>4. CASE FillExclusive(o)
    <3>1. write[o].target \notin Drafts => disk[write[o].target] = Broken
      BY <1>1, <2>4 DEF FillExclusive, At, RecordsIInv, RecordsNew, Creator
    <3> QED BY <2>4, <3>1 DEF FillExclusive
  <2>5. CASE FillTmp(o) \/ RenameTmp(o)
    <3>1. write[o].target \in Drafts
      BY <1>1, <2>5 DEF FillTmp, RenameTmp, At, RecordsIInv, TargetsExist
    <3> QED BY <2>5, <3>1 DEF FillTmp, RenameTmp
  <2>6. CASE CreateAudit(o)
    BY <2>6 DEF CreateAudit, Exists
  <2>7. CASE FillAudit(o)
    <3>1. disk[AuditPath(write[o])] = Broken
      BY <1>1, <2>7 DEF FillAudit, RecordsIInv, AuditsUnderWay
    <3> QED BY <2>7, <3>1 DEF FillAudit
  <2>8. CASE OpenTmp(o) \/ Halt(o)
    BY <2>8 DEF OpenTmp, Halt
  <2> QED BY <2>1, <2>2, <2>3, <2>4, <2>5, <2>6, <2>7, <2>8
<1>2. RecordsIInv /\ [RecordsNext]_recordVars => [Kept]_recordVars
  BY <1>1
<1> QED BY <1>2, RecordsInduction, PTL DEF RecordsSpec, FrozenImmutable
===============================================================================
