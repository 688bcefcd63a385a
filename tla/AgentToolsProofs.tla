--------------------------- MODULE AgentToolsProofs ---------------------------
(***************************************************************************)
(* What the editor keeps of a file and the memory and the command line     *)
(* keep of what they are asked, for all disks, policies, commands, files   *)
(* and command lines.                                                      *)
(***************************************************************************)
EXTENDS AgentTools, SequenceTheorems, FiniteSetTheorems, WellFoundedInduction, TLAPS

-----------------------------------------------------------------------------
\* The editor.

\* The history of a path names its own backups, one for every number, and nobody
\* else's: a backup of a path with a name of its own is the text that was saved.
HistoryOf(p) ==
  /\ Len(saved[p]) = Len(history[p]) /\ Len(history[p]) <= edits
  /\ \A i \in 1..Len(history[p]) : history[p][i] \in {Dot, <<NameOf[p], i - 1>>}
  /\ OnlyName(p) => \A i \in 1..Len(history[p]) :
       IF saved[p][i] = None THEN history[p][i] = Dot
       ELSE history[p][i] = <<NameOf[p], i - 1>> /\ backups[<<NameOf[p], i - 1>>] = saved[p][i]

\* A locked file has no version to go back to.
LockedOf(p) ==
  Locked(p) => history[p] = <<>> /\ \E first \in FirstDisks : disk[p] = first[p]

FileInv == FileTypeOK /\ \A p \in Paths : HistoryOf(p) /\ LockedOf(p)

LEMMA DotIsNoBackup ==
  ASSUME NEW p \in Paths, NEW i
  PROVE  Dot # <<NameOf[p], i>>
BY FilesAssumption DEF Dot

\* Only one path has a name of its own, so that the backups of two paths are apart.
LEMMA BackupsApart ==
  ASSUME NEW p \in Paths, NEW q \in Paths, p # q, OnlyName(p), NEW i, NEW j
  PROVE  <<NameOf[p], i>> # <<NameOf[q], j>>
BY DEF OnlyName

LEMMA BackupFileOf ==
  ASSUME NEW p \in Paths, NEW k \in 0..MaxEdits
  PROVE  <<NameOf[p], k>> \in BackupFiles
BY DEF BackupFiles

LEMMA HistoryLength ==
  ASSUME FileInv, NEW p \in Paths
  PROVE  /\ Len(history[p]) \in 0..edits /\ Len(saved[p]) = Len(history[p])
         /\ edits \in 0..MaxEdits /\ MaxEdits \in Nat
         /\ \A i \in 1..Len(history[p]) :
              /\ i \in Nat /\ i - 1 \in 0..MaxEdits /\ i - 1 < Len(history[p])
              /\ <<NameOf[p], i - 1>> \in BackupFiles
<1>1. /\ history[p] \in Seq(BackupFiles \cup {Dot}) /\ edits \in 0..MaxEdits
      /\ Len(saved[p]) = Len(history[p]) /\ Len(history[p]) <= edits /\ MaxEdits \in Nat
  BY FilesAssumption DEF FileInv, FileTypeOK, HistoryOf
<1>2. Len(history[p]) \in Nat
  BY <1>1, LenProperties
<1>3. \A i \in 1..Len(history[p]) :
        i \in Nat /\ i - 1 \in 0..MaxEdits /\ i - 1 < Len(history[p])
  BY <1>1, <1>2
<1> QED
  BY <1>1, <1>2, <1>3, BackupFileOf

LEMMA LockedIsDenied ==
  ASSUME NEW p \in Paths, Locked(p), NEW operation \in {"create", "update", "delete"}
  PROVE  ~Allowed(operation, p)
BY DEF Locked, Allowed

LEMMA OneMore ==
  ASSUME NEW s, s \in Seq(ToSet(s)), NEW e
  PROVE  /\ Append(s, e) \in Seq(ToSet(Append(s, e)))
         /\ Len(Append(s, e)) = Len(s) + 1
         /\ \A i \in 1..Len(s) : Append(s, e)[i] = s[i]
         /\ Append(s, e)[Len(s) + 1] = e
<1> DEFINE S == ToSet(s) \cup {e}
<1>1. s \in Seq(S)
  <2>1. ToSet(s) \subseteq S
    OBVIOUS
  <2> QED
    BY <2>1, SeqMonotonic
<1>2. /\ Append(s, e) \in Seq(S) /\ Len(Append(s, e)) = Len(s) + 1
      /\ \A i \in 1..Len(s) : Append(s, e)[i] = s[i]
      /\ Append(s, e)[Len(s) + 1] = e
  <2>1. e \in S
    OBVIOUS
  <2> HIDE DEF S
  <2> QED
    BY <1>1, <2>1, AppendProperties
<1>3. Append(s, e) \in Seq(ToSet(Append(s, e)))
  BY <1>2, SeqDef DEF ToSet
<1> QED
  BY <1>2, <1>3

LEMMA FrontOfSeq ==
  ASSUME NEW S, NEW s \in Seq(S), Len(s) > 0
  PROVE  /\ Front(s) \in Seq(S) /\ Len(Front(s)) = Len(s) - 1
         /\ \A i \in 1..(Len(s) - 1) : Front(s)[i] = s[i]
<1> DEFINE n == Len(s) - 1
<1>1. Len(s) \in Nat /\ n \in Nat
  BY LenProperties
<1>2. \A i \in 1..n : s[i] \in S
  BY <1>1, LenProperties
<1> HIDE DEF n
<1>3. /\ SubSeq(s, 1, n) \in Seq(S)
      /\ Len(SubSeq(s, 1, n)) = IF 1 <= n THEN n - 1 + 1 ELSE 0
      /\ \A i \in 1..(n - 1 + 1) : SubSeq(s, 1, n)[i] = s[1 + i - 1]
  BY <1>1, <1>2, SubSeqProperties
<1>4. Len(SubSeq(s, 1, n)) = n /\ \A i \in 1..n : SubSeq(s, 1, n)[i] = s[i]
  BY <1>1, <1>3
<1> QED
  BY <1>3, <1>4 DEF Front, n

LEMMA OneLess ==
  ASSUME NEW s, s \in Seq(ToSet(s)), s # <<>>
  PROVE  /\ Front(s) \in Seq(ToSet(Front(s)))
         /\ Len(s) \in Nat /\ Len(s) > 0 /\ Len(Front(s)) = Len(s) - 1
         /\ \A i \in 1..(Len(s) - 1) : Front(s)[i] = s[i]
<1> DEFINE S == ToSet(s)
<1>1. s \in Seq(S)
  OBVIOUS
<1> HIDE DEF S
<1>2. Len(s) \in Nat /\ Len(s) > 0
  BY <1>1, EmptySeq
<1>3. /\ Front(s) \in Seq(S) /\ Len(Front(s)) = Len(s) - 1
      /\ \A i \in 1..(Len(s) - 1) : Front(s)[i] = s[i]
  BY <1>1, <1>2, FrontOfSeq
<1>4. Front(s) \in Seq(ToSet(Front(s)))
  BY <1>3, SeqDef DEF ToSet
<1> QED
  BY <1>2, <1>3, <1>4

-----------------------------------------------------------------------------
LEMMA FileInitInv == FileInit => FileInv
<1> SUFFICES ASSUME FileInit
             PROVE  FileInv
  OBVIOUS
<1>1. /\ DOMAIN disk = Paths /\ DOMAIN backups = BackupFiles
      /\ history = [p \in Paths |-> <<>>] /\ saved = history /\ edits = 0
  BY FilesAssumption DEF FileInit
<1>2. FileTypeOK
  <2>1. \A S : <<>> \in Seq(S)
    BY EmptySeq
  <2>2. history \in [Paths -> Seq(BackupFiles \cup {Dot})]
    BY <1>1, <2>1
  <2>3. DOMAIN saved = Paths /\ \A p \in Paths : saved[p] \in Seq(ToSet(saved[p]))
    BY <1>1, <2>1
  <2>4. edits \in 0..MaxEdits
    <3>1. edits = 0 /\ MaxEdits \in Nat
      BY <1>1, FilesAssumption, Zenon
    <3> QED
      BY <3>1
  <2> QED
    BY <1>1, <2>2, <2>3, <2>4 DEF FileTypeOK
<1>3. \A p \in Paths : HistoryOf(p)
  BY <1>1 DEF HistoryOf
<1>4. \A p \in Paths : LockedOf(p)
  BY <1>1 DEF FileInit, LockedOf
<1> QED
  BY <1>2, <1>3, <1>4 DEF FileInv

\* What save_state makes of the history of a path.
LEMMA SaveStateInv ==
  ASSUME FileInv, NEW p \in Paths, SaveState(p), edits < MaxEdits, edits' = edits + 1,
         DOMAIN disk' = Paths
  PROVE  FileTypeOK' /\ \A q \in Paths : HistoryOf(q)'
<1> USE DEF FileInv
<1>1. BackupOf(p) \in BackupFiles \cup {Dot} /\ (disk[p] # None => BackupOf(p) \in BackupFiles)
  BY HistoryLength, BackupFileOf DEF BackupOf
<1>2. history'[p] = Append(history[p], BackupOf(p)) /\ saved'[p] = Append(saved[p], disk[p])
  BY DEF SaveState, FileTypeOK
<1>3. \A q \in Paths \ {p} : history'[q] = history[q] /\ saved'[q] = saved[q]
  BY DEF SaveState, FileTypeOK
<1>4. /\ DOMAIN backups' = BackupFiles /\ DOMAIN saved' = Paths
      /\ DOMAIN history' = Paths
  BY DEF SaveState, FileTypeOK
<1>5. FileTypeOK'
  <2>1. \A q \in Paths : history'[q] \in Seq(BackupFiles \cup {Dot})
    <3>1. \A q \in Paths : history[q] \in Seq(BackupFiles \cup {Dot})
      BY DEF FileTypeOK
    <3>2. history'[p] \in Seq(BackupFiles \cup {Dot})
      BY <3>1, <1>1, <1>2, AppendProperties
    <3> QED
      BY <3>1, <3>2, <1>3
  <2>2. \A q \in Paths : saved'[q] \in Seq(ToSet(saved'[q]))
    <3>1. \A q \in Paths : saved[q] \in Seq(ToSet(saved[q]))
      BY DEF FileTypeOK
    <3>2. saved'[p] \in Seq(ToSet(saved'[p]))
      BY <3>1, <1>2, OneMore
    <3>3. \A q \in Paths \ {p} : saved'[q] \in Seq(ToSet(saved'[q]))
      <4> TAKE q \in Paths \ {p}
      <4>1. saved'[q] = saved[q]
        BY <1>3
      <4> QED
        BY <3>1, <4>1
    <3> QED
      BY <3>2, <3>3
  <2>3. history' \in [Paths -> Seq(BackupFiles \cup {Dot})]
    BY <2>1, <1>4 DEF SaveState, FileTypeOK
  <2>4. edits' \in 0..MaxEdits
    BY HistoryLength
  <2> QED
    BY <2>2, <2>3, <2>4, <1>4, Zenon DEF FileTypeOK
<1>6. \A b \in BackupFiles : b # BackupOf(p) => backups'[b] = backups[b]
  BY DEF SaveState, FileTypeOK
<1>7. ASSUME NEW q \in Paths \ {p}
      PROVE  HistoryOf(q)'
  <2>1. HistoryOf(q)
    OBVIOUS
  <2>2. ASSUME OnlyName(q), NEW i \in 1..Len(history[q]), saved[q][i] # None
        PROVE  backups'[<<NameOf[q], i - 1>>] = backups[<<NameOf[q], i - 1>>]
    <3>1. <<NameOf[q], i - 1>> \in BackupFiles
      BY HistoryLength
    <3>2. <<NameOf[q], i - 1>> # BackupOf(p)
      BY <2>2, BackupsApart, DotIsNoBackup DEF BackupOf
    <3> QED
      BY <3>1, <3>2, <1>6
  <2> QED
    BY <2>1, <2>2, <1>3 DEF HistoryOf, OnlyName, FileTypeOK
<1>8. HistoryOf(p)'
  <2> DEFINE n == Len(history[p])
  <2>1. /\ HistoryOf(p) /\ n \in 0..edits /\ Len(saved[p]) = n
        /\ \A i \in 1..n : i \in Nat /\ i - 1 < n
    BY HistoryLength
  <2>2. /\ Len(history'[p]) = n + 1 /\ history'[p][n + 1] = BackupOf(p)
        /\ \A i \in 1..n : history'[p][i] = history[p][i]
    BY <1>1, <1>2 DEF FileTypeOK
  <2>3. /\ Len(saved'[p]) = n + 1 /\ saved'[p][n + 1] = disk[p]
        /\ \A i \in 1..n : saved'[p][i] = saved[p][i]
    BY <1>2, <2>1, OneMore DEF FileTypeOK
  <2>4. BackupOf(p) \in {Dot, <<NameOf[p], n>>} /\ n + 1 - 1 = n
    BY <2>1 DEF BackupOf
  <2>5. \A i \in 1..(n + 1) : history'[p][i] \in {Dot, <<NameOf[p], i - 1>>}
    <3> SUFFICES ASSUME NEW i \in 1..(n + 1)
                 PROVE  history'[p][i] \in {Dot, <<NameOf[p], i - 1>>}
      OBVIOUS
    <3>1. CASE i = n + 1
      BY <3>1, <2>2, <2>4
    <3>2. CASE i \in 1..n
      BY <3>2, <2>1, <2>2 DEF HistoryOf
    <3>3. n \in Nat
      BY <2>1 DEF FileTypeOK
    <3> HIDE DEF n
    <3> QED
      BY <3>1, <3>2, <3>3
  <2>6. \A i \in 1..n : saved[p][i] # None /\ OnlyName(p) =>
          backups'[<<NameOf[p], i - 1>>] = backups[<<NameOf[p], i - 1>>]
    <3> SUFFICES ASSUME NEW i \in 1..n
                 PROVE  backups'[<<NameOf[p], i - 1>>] = backups[<<NameOf[p], i - 1>>]
      OBVIOUS
    <3>1. <<NameOf[p], i - 1>> \in BackupFiles
      BY HistoryLength
    <3>2. <<NameOf[p], i - 1>> # BackupOf(p)
      BY <2>1, <2>4, DotIsNoBackup
    <3> QED
      BY <3>1, <3>2, <1>6
  <2>7. IF disk[p] = None THEN BackupOf(p) = Dot
        ELSE BackupOf(p) = <<NameOf[p], n>> /\ backups'[<<NameOf[p], n>>] = disk[p]
    BY <1>1 DEF BackupOf, SaveState, FileTypeOK
  <2>8. ASSUME OnlyName(p), NEW i \in 1..(n + 1)
        PROVE  IF saved'[p][i] = None THEN history'[p][i] = Dot
               ELSE /\ history'[p][i] = <<NameOf[p], i - 1>>
                    /\ backups'[<<NameOf[p], i - 1>>] = saved'[p][i]
    <3>1. CASE i = n + 1
      BY <3>1, <2>2, <2>3, <2>4, <2>7
    <3>2. CASE i \in 1..n
      <4>1. history'[p][i] = history[p][i] /\ saved'[p][i] = saved[p][i]
        BY <3>2, <2>2, <2>3
      <4>2. IF saved[p][i] = None THEN history[p][i] = Dot
            ELSE /\ history[p][i] = <<NameOf[p], i - 1>>
                 /\ backups[<<NameOf[p], i - 1>>] = saved[p][i]
        BY <3>2, <2>8, <2>1 DEF HistoryOf
      <4>3. saved[p][i] # None => backups'[<<NameOf[p], i - 1>>] = backups[<<NameOf[p], i - 1>>]
        BY <3>2, <2>8, <2>6
      <4> QED
        BY <4>1, <4>2, <4>3
    <3> QED
      BY <3>1, <3>2, <2>1
  <2>9. n + 1 <= edits'
    BY <2>1 DEF HistoryOf, FileTypeOK
  <2> HIDE DEF n
  <2> QED
    BY <2>2, <2>3, <2>5, <2>8, <2>9 DEF HistoryOf, OnlyName
<1> QED
  BY <1>5, <1>7, <1>8

\* What an undo leaves of the histories, whether it can restore the file or not.
LEMMA UndoInv ==
  ASSUME FileInv, NEW c \in FileCommands, Undo(c)
  PROVE  FileTypeOK' /\ \A q \in Paths : HistoryOf(q)'
<1> USE DEF FileInv
<1> DEFINE p == c.path
           n == Len(history[p])
           last == Last(history[p])
<1>1. p \in Paths /\ edits' = edits
  BY FilesAssumption DEF Undo
<1> HIDE DEF p
<1>2. CASE history[p] = <<>>
  <2>1. UNCHANGED <<disk, history, backups, saved>>
    BY <1>2 DEF Undo, p
  <2> QED
    BY <1>1, <2>1 DEF FileTypeOK, HistoryOf, OnlyName
<1>3. CASE history[p] # <<>>
  <2>1. /\ history' = [history EXCEPT ![p] = Front(@)] /\ saved' = [saved EXCEPT ![p] = Front(@)]
        /\ \/ UNCHANGED <<disk, backups>>
           \/ /\ last # Dot /\ backups' = [backups EXCEPT ![last] = None]
              /\ Changed(c, backups[last])
    BY <1>3 DEF Undo, p
  <2>2. DOMAIN disk' = Paths /\ DOMAIN backups' = BackupFiles
    BY <2>1 DEF FileTypeOK, Changed
  <2>3. /\ n \in 1..edits /\ Len(saved[p]) = n /\ last \in {Dot, <<NameOf[p], n - 1>>}
        /\ \A i \in 1..n : i \in Nat /\ i - 1 < n
    <3>1. n \in 0..edits /\ Len(saved[p]) = n /\ \A i \in 1..n : i \in Nat /\ i - 1 < n
      BY <1>1, HistoryLength
    <3>2. n # 0
      BY <1>1, <1>3, EmptySeq DEF FileTypeOK
    <3>3. n \in 1..n /\ last = history[p][n]
      BY <3>1, <3>2 DEF Last
    <3> QED
      BY <3>1, <3>2, <3>3, <1>1 DEF HistoryOf
  <2>4. \A b \in BackupFiles : b # <<NameOf[p], n - 1>> => backups'[b] = backups[b]
    BY <2>1, <2>3 DEF FileTypeOK
  <2>5. /\ history'[p] \in Seq(BackupFiles \cup {Dot}) /\ Len(history'[p]) = n - 1
        /\ \A i \in 1..(n - 1) : history'[p][i] = history[p][i]
    <3>1. history[p] \in Seq(BackupFiles \cup {Dot}) /\ history'[p] = Front(history[p])
      BY <1>1, <2>1 DEF FileTypeOK
    <3>2. n \in Nat /\ n > 0
      BY <2>3, HistoryLength, <1>1
    <3> QED
      BY <3>1, <3>2, FrontOfSeq
  <2>6. /\ saved'[p] \in Seq(ToSet(saved'[p])) /\ Len(saved'[p]) = n - 1
        /\ \A i \in 1..(n - 1) : saved'[p][i] = saved[p][i]
    <3>1. saved[p] \in Seq(ToSet(saved[p])) /\ saved'[p] = Front(saved[p])
      BY <1>1, <2>1 DEF FileTypeOK
    <3>2. saved[p] # <<>>
      BY <2>3, EmptySeq
    <3> QED
      BY <3>1, <3>2, <2>3, OneLess
  <2>7. \A q \in Paths \ {p} : history'[q] = history[q] /\ saved'[q] = saved[q]
    BY <2>1 DEF FileTypeOK
  <2>8. FileTypeOK'
    <3>1. DOMAIN history' = Paths /\ DOMAIN saved' = Paths /\ history' = [q \in Paths |-> history'[q]]
      BY <2>1 DEF FileTypeOK
    <3>2. \A q \in Paths : history'[q] \in Seq(BackupFiles \cup {Dot})
      <4>1. \A q \in Paths : history[q] \in Seq(BackupFiles \cup {Dot})
        BY DEF FileTypeOK
      <4> QED
        BY <4>1, <2>5, <2>7
    <3>3. \A q \in Paths \ {p} : saved'[q] \in Seq(ToSet(saved'[q]))
      <4> TAKE q \in Paths \ {p}
      <4>1. saved[q] \in Seq(ToSet(saved[q])) /\ saved'[q] = saved[q]
        BY <2>7 DEF FileTypeOK
      <4> QED
        BY <4>1
    <3>4. history' \in [Paths -> Seq(BackupFiles \cup {Dot})]
      BY <3>1, <3>2
    <3> QED
      BY <3>1, <3>3, <3>4, <1>1, <2>2, <2>6 DEF FileTypeOK
  <2>9. ASSUME NEW q \in Paths \ {p}
        PROVE  HistoryOf(q)'
    <3>1. ASSUME OnlyName(q), NEW i \in 1..Len(history[q])
          PROVE  backups'[<<NameOf[q], i - 1>>] = backups[<<NameOf[q], i - 1>>]
      <4>1. <<NameOf[q], i - 1>> \in BackupFiles
        BY HistoryLength
      <4> QED
        BY <3>1, <4>1, <2>4, <1>1, BackupsApart
    <3> QED
      BY <3>1, <1>1, <2>7 DEF HistoryOf, OnlyName
  <2>10. HistoryOf(p)'
    <3>1. \A i \in 1..(n - 1) : /\ i \in 1..n /\ <<NameOf[p], i - 1>> \in BackupFiles
                                /\ <<NameOf[p], i - 1>> # <<NameOf[p], n - 1>>
      <4> TAKE i \in 1..(n - 1)
      <4>1. n \in Nat /\ i \in 1..n /\ i # n
        BY <1>1, <2>3, HistoryLength
      <4>2. <<NameOf[p], i - 1>> \in BackupFiles
        BY <1>1, <4>1, HistoryLength
      <4> QED
        BY <4>1, <4>2
    <3>2. HistoryOf(p) /\ n \in Nat /\ edits \in Nat
      BY <1>1, <2>3, HistoryLength
    <3>3. n - 1 <= edits'
      BY <1>1, <2>3, <3>2
    <3> HIDE DEF n
    <3>4. \A i \in 1..(n - 1) : history'[p][i] \in {Dot, <<NameOf[p], i - 1>>}
      BY <3>1, <3>2, <2>5 DEF HistoryOf, n
    <3>5. ASSUME OnlyName(p), NEW i \in 1..(n - 1)
          PROVE  IF saved'[p][i] = None THEN history'[p][i] = Dot
                 ELSE /\ history'[p][i] = <<NameOf[p], i - 1>>
                      /\ backups'[<<NameOf[p], i - 1>>] = saved'[p][i]
      <4>1. IF saved[p][i] = None THEN history[p][i] = Dot
            ELSE /\ history[p][i] = <<NameOf[p], i - 1>>
                 /\ backups[<<NameOf[p], i - 1>>] = saved[p][i]
        BY <3>1, <3>2, <3>5 DEF HistoryOf, n
      <4> QED
        BY <4>1, <3>1, <2>4, <2>5, <2>6
    <3> QED
      BY <3>3, <3>4, <3>5, <2>5, <2>6 DEF HistoryOf, OnlyName
  <2> QED
    BY <2>8, <2>9, <2>10
<1> QED
  BY <1>2, <1>3

\* Each command changes the file and the versions of its own path only, and of that
\* path only if it is allowed to, or goes back to a version.
LEMMA OwnPathOnly ==
  ASSUME FileInv, NEW c \in FileCommands, Edit(c) \/ Delete(c) \/ Undo(c)
  PROVE  /\ DOMAIN disk' = Paths
         /\ \A q \in Paths \ {c.path} : disk'[q] = disk[q] /\ history'[q] = history[q]
         /\ Locked(c.path) => UNCHANGED <<disk, history>>
<1> USE DEF FileInv, FileTypeOK
<1>0. c.path \in Paths
  BY FilesAssumption
<1>1. CASE Edit(c) \/ Delete(c)
  <2>1. /\ DOMAIN disk' = Paths
        /\ \A q \in Paths \ {c.path} : disk'[q] = disk[q] /\ history'[q] = history[q]
    <3>1. history' = [history EXCEPT ![c.path] = Append(@, BackupOf(c.path))]
      BY <1>1 DEF Edit, Delete, SaveState
    <3>2. disk' = disk \/ \E t : disk' = [disk EXCEPT ![c.path] = t]
      BY <1>1, Zenon DEF Edit, Delete, Changed
    <3> QED
      BY <3>1, <3>2
  <2>2. ~Locked(c.path)
    <3>1. CASE Edit(c)
      <4>1. OperationOf(c) \in {"create", "update"} /\ Allowed(OperationOf(c), c.path)
        BY <3>1 DEF Edit, OperationOf
      <4> QED
        BY <4>1, <1>0, LockedIsDenied
    <3>2. CASE Delete(c)
      BY <3>2, <1>0, LockedIsDenied DEF Delete
    <3> QED
      BY <1>1, <3>1, <3>2
  <2> QED
    BY <2>1, <2>2
<1>2. CASE Undo(c)
  <2>1. Locked(c.path) => history[c.path] = <<>>
    BY <1>0 DEF LockedOf
  <2>2. history[c.path] = <<>> => UNCHANGED <<disk, history>>
    BY <1>2 DEF Undo
  <2>3. \/ UNCHANGED <<disk, history>>
        \/ /\ history' = [history EXCEPT ![c.path] = Front(@)]
           /\ disk' = disk \/ \E t : disk' = [disk EXCEPT ![c.path] = t]
    BY <1>2, Zenon DEF Undo, Changed
  <2> QED
    BY <2>1, <2>2, <2>3
<1> QED
  BY <1>1, <1>2

LEMMA FileInvStep == FileInv /\ [FileNext]_fileVars => FileInv'
<1> SUFFICES ASSUME FileInv, [FileNext]_fileVars
             PROVE  FileInv'
  OBVIOUS
<1>1. ASSUME UNCHANGED <<disk, history, backups, saved, edits>>
      PROVE  FileInv'
  BY <1>1 DEF FileInv, FileTypeOK, HistoryOf, OnlyName, LockedOf
<1>2. ASSUME NEW c \in FileCommands, Edit(c) \/ Delete(c) \/ Undo(c)
      PROVE  FileInv'
  <2>1. FileTypeOK' /\ \A q \in Paths : HistoryOf(q)'
    <3>1. CASE Edit(c) \/ Delete(c)
      <4>1. SaveState(c.path) /\ edits < MaxEdits /\ edits' = edits + 1 /\ c.path \in Paths
        BY <3>1, FilesAssumption DEF Edit, Delete
      <4>2. DOMAIN disk' = Paths
        BY <1>2, OwnPathOnly
      <4> QED
        BY <4>1, <4>2, SaveStateInv
    <3> QED
      BY <1>2, <3>1, UndoInv
  <2>2. ASSUME NEW q \in Paths
        PROVE  LockedOf(q)'
    <3>1. LockedOf(q)
      BY DEF FileInv
    <3>2. Locked(q) => disk'[q] = disk[q] /\ history'[q] = history[q]
      BY <1>2, OwnPathOnly
    <3> QED
      BY <3>1, <3>2 DEF LockedOf
  <2> QED
    BY <2>1, <2>2 DEF FileInv
<1>3. ASSUME NEW c \in FileCommands, Denied(c) \/ View(c)
      PROVE  UNCHANGED <<disk, history, backups, saved, edits>>
  BY <1>3 DEF Denied, View
<1> QED
  BY <1>1, <1>2, <1>3 DEF FileNext, fileVars

LEMMA ToolsFileInv == ToolsSpec => []FileInv
<1>1. ToolsInit => FileInv
  BY FileInitInv DEF ToolsInit
<1>2. FileInv /\ [ToolsNext]_<<fileVars, memVars, commandVars, tool>> => FileInv'
  <2> SUFFICES ASSUME FileInv, [ToolsNext]_<<fileVars, memVars, commandVars, tool>>
               PROVE  FileInv'
    OBVIOUS
  <2>1. [FileNext]_fileVars
    BY DEF ToolsNext
  <2> QED
    BY <2>1, FileInvStep
<1> QED
  BY <1>1, <1>2, PTL DEF ToolsSpec

\* For all policies and commands: a file that one policy locks stays as it was, for
\* neither a command that asks the policy nor undo, which does not, can change it.
THEOREM LockedFilesTheorem == ToolsSpec => []LockedFilesKept
<1>1. FileInv => LockedFilesKept
  BY DEF FileInv, LockedOf, LockedFilesKept
<1> QED
  BY <1>1, ToolsFileInv, PTL

\* For all texts and any number of edits, deletions and undoes of any files: an undo
\* puts back what the last command on the path found, if no other path has its name.
THEOREM UndoTheorem == ToolsSpec => UndoRestoresOwnName
<1> DEFINE p == result'.of.path
           Restored == (/\ result'.of.command = "undo" /\ history' # history
                        /\ OnlyName(p) /\ Last(saved[p]) # None)
                         => result'.callback # "none" \/ (result'.ok /\ disk'[p] = Last(saved[p]))
<1>1. ASSUME FileInv, [FileNext]_fileVars
      PROVE  [Restored]_fileVars
  <2> SUFFICES ASSUME FileNext, result'.of.command = "undo", history' # history, OnlyName(p),
                      Last(saved[p]) # None
               PROVE  result'.callback # "none" \/ (result'.ok /\ disk'[p] = Last(saved[p]))
    BY <1>1 DEF fileVars
  <2>1. PICK c \in FileCommands : Denied(c) \/ Edit(c) \/ Delete(c) \/ View(c) \/ Undo(c)
    BY DEF FileNext
  <2>2. result'.of = c
    <3>1. \E ok, callback, hint : Respond(c, ok, callback, hint)
      BY <2>1, Zenon DEF Denied, Edit, Delete, View, Undo, Changed
    <3> QED
      BY <3>1 DEF Respond
  <2>3. Undo(c) /\ c.path = p /\ p \in Paths
    BY <2>1, <2>2, FilesAssumption DEF Denied, Edit, Delete, View
  <2> HIDE DEF p
  <2> DEFINE n == Len(history[p])
             last == Last(history[p])
  <2>4. history[p] # <<>>
    BY <2>3 DEF Undo
  <2>5. /\ n \in Nat /\ n > 0 /\ last = history[p][n] /\ Last(saved[p]) = saved[p][n]
    BY <1>1, <2>3, <2>4, HistoryLength, EmptySeq DEF FileInv, FileTypeOK, Last
  <2>6. last = <<NameOf[p], n - 1>> /\ backups[last] = Last(saved[p])
    <3>1. HistoryOf(p) /\ n \in 1..Len(history[p])
      BY <1>1, <2>3, <2>5 DEF FileInv
    <3>2. IF saved[p][n] = None THEN history[p][n] = Dot
          ELSE /\ history[p][n] = <<NameOf[p], n - 1>>
               /\ backups[<<NameOf[p], n - 1>>] = saved[p][n]
      BY <3>1, Zenon DEF HistoryOf
    <3> QED
      BY <3>2, <2>5
  <2>7. last # Dot /\ backups[last] # None
    BY <2>3, <2>6, DotIsNoBackup
  <2>8. Changed(c, backups[last])
    BY <2>3, <2>4, <2>7 DEF Undo
  <2>9. PICK callback \in CallbackOutcomes :
          /\ disk' = [disk EXCEPT ![p] = Formatted(backups[last], callback)]
          /\ Respond(c, callback # "raise", callback,
                     IF callback = "raise" THEN "failed" ELSE None)
    BY <2>3, <2>8 DEF Changed
  <2>10. result'.callback = callback /\ result'.ok = (callback # "raise")
    BY <2>9 DEF Respond
  <2>11. callback = "none" => disk'[p] = backups[last]
    BY <1>1, <2>3, <2>9 DEF Formatted, FileInv, FileTypeOK
  <2> QED
    BY <2>6, <2>10, <2>11
<1>2. [ToolsNext]_<<fileVars, memVars, commandVars, tool>> => [FileNext]_fileVars
  BY DEF ToolsNext
<1>3. FileInv /\ [ToolsNext]_<<fileVars, memVars, commandVars, tool>> => [Restored]_fileVars
  BY <1>1, <1>2
<1> QED
  BY <1>3, ToolsFileInv, PTL DEF ToolsSpec, UndoRestoresOwnName

-----------------------------------------------------------------------------
\* Induction over the numbers, of a predicate that is given as a function: what a
\* recursive function of the model computes is proved with it.

LEMMA LeastNat ==
  ASSUME NEW T \in SUBSET Nat, T # {}
  PROVE  \E x \in T : \A y \in T : x <= y
<1> DEFINE R == OpToRel(<, Nat)
<1>1. IsWellFoundedOn(R, Nat)
  BY NatLessThanWellFounded
<1>2. \A x, y \in Nat : <<x, y>> \in R <=> x < y
  BY DEF OpToRel
<1> HIDE DEF R
<1>3. PICK x \in T : \A y \in T : ~(<<y, x>> \in R)
  BY <1>1, WFMin, Zenon
<1>4. \A y \in T : y \in Nat /\ x \in Nat /\ ~(y < x)
  BY <1>2, <1>3
<1> QED
  BY <1>3, <1>4

LEMMA Induction ==
  ASSUME NEW P \in [Nat -> BOOLEAN], P[0], \A n \in Nat : P[n] => P[n + 1]
  PROVE  \A n \in Nat : P[n]
<1> DEFINE T == {n \in Nat : ~P[n]}
<1> SUFFICES ASSUME T # {}
             PROVE  FALSE
  OBVIOUS
<1>1. PICK x \in T : \A y \in T : x <= y
  BY LeastNat
<1>2. x # 0 /\ x \in Nat /\ x - 1 \in Nat /\ x - 1 \notin T
  BY <1>1
<1> QED
  BY <1>1, <1>2

-----------------------------------------------------------------------------
\* Texts and lines.

Line == Seq(Characters \ {NL})
Text == Seq(Characters)
Cat(s, t) == s \o t

\* What the recursive functions of Lines and Join compute up to each of n entries.
LinesUpto(t, n, a) == a[0] = <<<<>>>> /\ \A k \in 1..n : a[k] = WithChar(a[k - 1], t[k])
NextJoin(k, t, line) == IF k = 1 THEN line ELSE Parted(t, line)
JoinUpto(t, n, a) == a[0] = <<>> /\ \A k \in 1..n : a[k] = NextJoin(k, a[k - 1], t[k])

LEMMA LinesDef ==
  ASSUME NEW s, Len(s) \in Nat
  PROVE  \E upto : LinesUpto(s, Len(s), upto) /\ Lines(s) = upto[Len(s)]
<1> DEFINE Is(g, n) == g = [k \in 0..n |-> IF k = 0 THEN <<<<>>>> ELSE WithChar(g[k - 1], s[k])]
           P == [n \in Nat |-> \E g : Is(g, n)]
           upto == CHOOSE g : Is(g, Len(s))
<1>1. P[0]
  <2>1. Is([k \in 0..0 |-> <<<<>>>>], 0)
    OBVIOUS
  <2> QED
    BY <2>1
<1>2. ASSUME NEW n \in Nat, P[n]
      PROVE  P[n + 1]
  <2>1. PICK g : Is(g, n)
    BY <1>2
  <2> DEFINE h == [k \in 0..(n + 1) |-> IF k = n + 1 THEN WithChar(g[n], s[n + 1]) ELSE g[k]]
  <2>2. \A k \in 0..n : h[k] = g[k]
    OBVIOUS
  <2>3. \A k \in 0..(n + 1) : h[k] = IF k = 0 THEN <<<<>>>> ELSE WithChar(h[k - 1], s[k])
    <3> SUFFICES ASSUME NEW k \in 0..(n + 1)
                 PROVE  h[k] = IF k = 0 THEN <<<<>>>> ELSE WithChar(h[k - 1], s[k])
      OBVIOUS
    <3>1. CASE k = n + 1
      <4>1. k # 0 /\ k - 1 = n /\ n \in 0..n
        BY <3>1
      <4> QED
        BY <3>1, <4>1, <2>2
    <3>2. CASE k \in 1..n
      <4>1. k # 0 /\ k - 1 \in 0..n /\ k \in 0..n
        BY <3>2
      <4>2. g[k] = WithChar(g[k - 1], s[k])
        BY <4>1, <2>1
      <4> QED
        BY <4>1, <4>2, <2>2
    <3>3. CASE k = 0
      BY <3>3, <2>1, <2>2
    <3> QED
      BY <3>1, <3>2, <3>3
  <2>4. Is(h, n + 1)
    BY <2>3
  <2> HIDE DEF h, Is
  <2> QED
    BY <2>4
<1>3. \A n \in Nat : P[n]
  <2> HIDE DEF Is
  <2>1. P \in [Nat -> BOOLEAN]
    OBVIOUS
  <2> HIDE DEF P
  <2> QED
    BY <1>1, <1>2, <2>1, Induction
<1>4. Is(upto, Len(s))
  <2>1. \E g : Is(g, Len(s))
    BY <1>3
  <2> HIDE DEF Is
  <2> QED
    BY <2>1
<1>5. Lines(s) = upto[Len(s)]
  BY DEF Lines
<1> HIDE DEF upto
<1>6. upto[0] = <<<<>>>> /\ \A k \in 1..Len(s) : upto[k] = WithChar(upto[k - 1], s[k])
  <2>1. \A k \in 0..Len(s) : upto[k] = IF k = 0 THEN <<<<>>>> ELSE WithChar(upto[k - 1], s[k])
    BY <1>4, Zenon
  <2>2. 0 \in 0..Len(s) /\ \A k \in 1..Len(s) : k \in 0..Len(s) /\ k # 0
    OBVIOUS
  <2> HIDE DEF Is
  <2> QED
    BY <2>1, <2>2
<1> QED
  BY <1>5, <1>6 DEF LinesUpto

LEMMA JoinDef ==
  ASSUME NEW s, Len(s) \in Nat
  PROVE  \E upto : JoinUpto(s, Len(s), upto) /\ Join(s) = upto[Len(s)]
<1> DEFINE Is(g, n) == g = [k \in 0..n |-> IF k = 0 THEN <<>> ELSE NextJoin(k, g[k - 1], s[k])]
           P == [n \in Nat |-> \E g : Is(g, n)]
           upto == CHOOSE g : Is(g, Len(s))
<1>1. P[0]
  <2>1. Is([k \in 0..0 |-> <<>>], 0)
    OBVIOUS
  <2> QED
    BY <2>1
<1>2. ASSUME NEW n \in Nat, P[n]
      PROVE  P[n + 1]
  <2>1. PICK g : Is(g, n)
    BY <1>2
  <2> DEFINE h == [k \in 0..(n + 1) |-> IF k = n + 1 THEN NextJoin(n + 1, g[n], s[n + 1]) ELSE g[k]]
  <2>2. \A k \in 0..n : h[k] = g[k]
    OBVIOUS
  <2>3. \A k \in 0..(n + 1) : h[k] = IF k = 0 THEN <<>> ELSE NextJoin(k, h[k - 1], s[k])
    <3> SUFFICES ASSUME NEW k \in 0..(n + 1)
                 PROVE  h[k] = IF k = 0 THEN <<>> ELSE NextJoin(k, h[k - 1], s[k])
      OBVIOUS
    <3>1. CASE k = n + 1
      <4>1. k # 0 /\ k - 1 = n /\ n \in 0..n
        BY <3>1
      <4> QED
        BY <3>1, <4>1, <2>2
    <3>2. CASE k \in 1..n
      <4>1. k # 0 /\ k - 1 \in 0..n /\ k \in 0..n
        BY <3>2
      <4>2. g[k] = NextJoin(k, g[k - 1], s[k])
        BY <4>1, <2>1
      <4> QED
        BY <4>1, <4>2, <2>2
    <3>3. CASE k = 0
      BY <3>3, <2>1, <2>2
    <3> QED
      BY <3>1, <3>2, <3>3
  <2>4. Is(h, n + 1)
    BY <2>3
  <2> HIDE DEF h, Is
  <2> QED
    BY <2>4
<1>3. \A n \in Nat : P[n]
  <2> HIDE DEF Is
  <2>1. P \in [Nat -> BOOLEAN]
    OBVIOUS
  <2> HIDE DEF P
  <2> QED
    BY <1>1, <1>2, <2>1, Induction
<1>4. Is(upto, Len(s))
  <2>1. \E g : Is(g, Len(s))
    BY <1>3
  <2> HIDE DEF Is
  <2> QED
    BY <2>1
<1>5. Join(s) = upto[Len(s)]
  BY DEF Join, NextJoin
<1> HIDE DEF upto
<1>6. upto[0] = <<>> /\ \A k \in 1..Len(s) : upto[k] = NextJoin(k, upto[k - 1], s[k])
  <2>1. \A k \in 0..Len(s) : upto[k] = IF k = 0 THEN <<>> ELSE NextJoin(k, upto[k - 1], s[k])
    BY <1>4, Zenon
  <2>2. 0 \in 0..Len(s) /\ \A k \in 1..Len(s) : k \in 0..Len(s) /\ k # 0
    OBVIOUS
  <2> HIDE DEF Is
  <2> QED
    BY <2>1, <2>2
<1> QED
  BY <1>5, <1>6 DEF JoinUpto

\* Induction over sequences, of a predicate that is given as a function.
LEMMA SeqInduction ==
  ASSUME NEW S, NEW P \in [Seq(S) -> BOOLEAN], P[<<>>],
         \A s \in Seq(S), e \in S : P[s] => P[Append(s, e)]
  PROVE  \A s \in Seq(S) : P[s]
<1> DEFINE Q == [n \in Nat |-> \A s \in Seq(S) : Len(s) = n => P[s]]
<1>1. Q[0]
  <2>1. \A s \in Seq(S) : Len(s) = 0 => s = <<>>
    BY EmptySeq
  <2> QED
    BY <2>1
<1>2. ASSUME NEW n \in Nat, Q[n]
      PROVE  Q[n + 1]
  <2> SUFFICES ASSUME NEW s \in Seq(S), Len(s) = n + 1
               PROVE  P[s]
    OBVIOUS
  <2>1. PICK t \in Seq(S), e \in S : s = Append(t, e)
    <3>1. s # <<>>
      BY EmptySeq
    <3> QED
      BY <3>1, SequenceEmptyOrAppend
  <2>2. Len(s) = Len(t) + 1 /\ Len(t) \in Nat
    BY <2>1, AppendProperties, LenProperties
  <2>3. Len(t) = n
    BY <2>2
  <2>4. P[t]
    BY <1>2, <2>3
  <2> QED
    BY <2>1, <2>4
<1>3. Q \in [Nat -> BOOLEAN]
  OBVIOUS
<1> HIDE DEF Q
<1>4. \A n \in Nat : Q[n]
  BY <1>1, <1>2, <1>3, Induction
<1> SUFFICES ASSUME NEW s \in Seq(S)
             PROVE  P[s]
  OBVIOUS
<1>5. Q[Len(s)]
  BY <1>4, LenProperties
<1> QED
  BY <1>5 DEF Q

\* What is computed up to an entry does not depend on the entries after it.
LEMMA SameUpto ==
  ASSUME NEW n \in Nat, NEW a, NEW b, a[0] = b[0],
         \A k \in 1..n : a[k - 1] = b[k - 1] => a[k] = b[k]
  PROVE  a[n] = b[n]
<1> DEFINE P == [k \in Nat |-> k <= n => a[k] = b[k]]
<1>1. P[0]
  OBVIOUS
<1>2. ASSUME NEW k \in Nat, P[k]
      PROVE  P[k + 1]
  <2>1. k <= n => a[k] = b[k]
    BY <1>2
  <2>2. k + 1 <= n => k + 1 \in 1..n /\ k + 1 - 1 = k /\ k <= n
    OBVIOUS
  <2>3. k + 1 <= n => a[k + 1] = b[k + 1]
    BY <2>1, <2>2
  <2>4. k + 1 \in Nat
    OBVIOUS
  <2> QED
    BY <2>3, <2>4, Zenon
<1>3. P \in [Nat -> BOOLEAN]
  OBVIOUS
<1> HIDE DEF P
<1>4. P[n]
  BY <1>1, <1>2, <1>3, Induction
<1>5. n <= n
  OBVIOUS
<1> QED
  BY <1>4, <1>5 DEF P

LEMMA LinesSame ==
  ASSUME NEW n \in Nat, NEW t, NEW a, LinesUpto(t, n, a), NEW b, LinesUpto(t, n, b)
  PROVE  a[n] = b[n]
BY SameUpto DEF LinesUpto

LEMMA JoinSame ==
  ASSUME NEW n \in Nat, NEW t, NEW a, JoinUpto(t, n, a), NEW b, JoinUpto(t, n, b)
  PROVE  a[n] = b[n]
BY SameUpto DEF JoinUpto

LEMMA LinesEmpty == Lines(<<>>) = <<<<>>>>
<1>1. Len(<<>>) = 0
  OBVIOUS
<1>2. PICK a : LinesUpto(<<>>, Len(<<>>), a) /\ Lines(<<>>) = a[Len(<<>>)]
  BY <1>1, LinesDef
<1> QED
  BY <1>1, <1>2 DEF LinesUpto

LEMMA LinesAppend ==
  ASSUME NEW s \in Text, NEW c \in Characters
  PROVE  Lines(Append(s, c)) = WithChar(Lines(s), c)
<1> DEFINE t == Append(s, c)
           n == Len(s)
           m == n + 1
<1>1. n \in Nat
  BY LenProperties DEF Text
<1>2. Len(t) = m /\ (\A k \in 1..n : t[k] = s[k]) /\ t[m] = c
  BY AppendProperties DEF Text
<1>3. m \in Nat /\ m \in 1..m /\ m - 1 = n /\ \A k \in 1..n : k \in 1..m
  BY <1>1
<1> HIDE DEF t, m
<1>4. PICK a : LinesUpto(t, m, a) /\ Lines(t) = a[m]
  BY <1>2, <1>3, LinesDef
<1>5. PICK b : LinesUpto(s, n, b) /\ Lines(s) = b[n]
  BY <1>1, LinesDef
<1>6. LinesUpto(s, n, a)
  BY <1>2, <1>3, <1>4 DEF LinesUpto
<1>7. a[n] = b[n]
  BY <1>1, <1>5, <1>6, LinesSame
<1>8. a[m] = WithChar(a[n], c)
  BY <1>2, <1>3, <1>4 DEF LinesUpto
<1> QED
  BY <1>4, <1>5, <1>7, <1>8 DEF t

LEMMA JoinEmpty == Join(<<>>) = <<>>
<1>1. Len(<<>>) = 0
  OBVIOUS
<1>2. PICK a : JoinUpto(<<>>, Len(<<>>), a) /\ Join(<<>>) = a[Len(<<>>)]
  BY <1>1, JoinDef
<1> QED
  BY <1>1, <1>2 DEF JoinUpto

LEMMA JoinAppend ==
  ASSUME NEW S, NEW s \in Seq(S), NEW c \in S
  PROVE  Join(Append(s, c)) = IF s = <<>> THEN c ELSE Parted(Join(s), c)
<1> DEFINE t == Append(s, c)
           n == Len(s)
           m == n + 1
<1>1. n \in Nat /\ (s = <<>> <=> n = 0)
  BY LenProperties, EmptySeq
<1>2. Len(t) = m /\ (\A k \in 1..n : t[k] = s[k]) /\ t[m] = c
  BY AppendProperties
<1>3. m \in Nat /\ m \in 1..m /\ m - 1 = n /\ (m = 1 <=> n = 0) /\ \A k \in 1..n : k \in 1..m
  BY <1>1
<1> HIDE DEF t, m
<1>4. PICK a : JoinUpto(t, m, a) /\ Join(t) = a[m]
  BY <1>2, <1>3, JoinDef
<1>5. PICK b : JoinUpto(s, n, b) /\ Join(s) = b[n]
  BY <1>1, JoinDef
<1>6. JoinUpto(s, n, a)
  BY <1>2, <1>3, <1>4 DEF JoinUpto
<1>7. a[n] = b[n]
  BY <1>1, <1>5, <1>6, JoinSame
<1>8. a[m] = NextJoin(m, a[n], c)
  BY <1>2, <1>3, <1>4 DEF JoinUpto
<1>9. Join(t) = NextJoin(m, Join(s), c)
  BY <1>4, <1>5, <1>7, <1>8
<1> QED
  BY <1>1, <1>3, <1>9 DEF t, NextJoin

-----------------------------------------------------------------------------
\* Sequences as values: what follows is about Cat, whose definition the provers
\* need not see.

IsCat(S, s, t, r) ==
  /\ r \in Seq(S) /\ Len(r) = Len(s) + Len(t) /\ Len(s) \in Nat /\ Len(t) \in Nat
  /\ \A i \in 1..Len(s) : r[i] = s[i]
  /\ \A i \in 1..Len(t) : r[Len(s) + i] = t[i]

LEMMA CatIsCat ==
  ASSUME NEW S, NEW s \in Seq(S), NEW t \in Seq(S)
  PROVE  IsCat(S, s, t, Cat(s, t)) /\ Cat(s, t) \in Seq(S)
<1> DEFINE r == s \o t
<1>1. /\ r \in Seq(S) /\ Len(r) = Len(s) + Len(t)
      /\ \A i \in 1..(Len(s) + Len(t)) : r[i] = IF i <= Len(s) THEN s[i] ELSE t[i - Len(s)]
  BY ConcatProperties
<1>2. Len(s) \in Nat /\ Len(t) \in Nat
  BY LenProperties
<1>3. \A i \in 1..Len(s) : i \in 1..(Len(s) + Len(t)) /\ i <= Len(s)
  BY <1>2
<1>4. \A i \in 1..Len(t) :
        /\ Len(s) + i \in 1..(Len(s) + Len(t)) /\ ~(Len(s) + i <= Len(s))
        /\ Len(s) + i - Len(s) = i
  BY <1>2
<1>5. Cat(s, t) = r
  BY DEF Cat
<1> HIDE DEF r
<1>6. IsCat(S, s, t, r)
  BY <1>1, <1>2, <1>3, <1>4 DEF IsCat
<1> QED
  BY <1>1, <1>5, <1>6

LEMMA CatEmpty ==
  ASSUME NEW S, NEW s \in Seq(S)
  PROVE  Cat(s, <<>>) = s /\ Cat(<<>>, s) = s
BY ConcatEmptySeq DEF Cat

LEMMA CatAssociative ==
  ASSUME NEW S, NEW s \in Seq(S), NEW t \in Seq(S), NEW u \in Seq(S)
  PROVE  Cat(Cat(s, t), u) = Cat(s, Cat(t, u))
BY ConcatAssociative DEF Cat

LEMMA CatAppend ==
  ASSUME NEW S, NEW s \in Seq(S), NEW t \in Seq(S), NEW e \in S
  PROVE  Cat(s, Append(t, e)) = Append(Cat(s, t), e)
<1>1. <<e>> \in Seq(S) /\ s \o t \in Seq(S)
  BY ConcatProperties
<1>2. Append(t, e) = t \o <<e>> /\ Append(s \o t, e) = (s \o t) \o <<e>>
  BY <1>1, AppendIsConcat
<1>3. (s \o t) \o <<e>> = s \o (t \o <<e>>)
  BY <1>1, ConcatAssociative
<1> QED
  BY <1>2, <1>3 DEF Cat

\* A text, the end of a line, and another text.
LEMMA PartedOK ==
  ASSUME NEW s \in Text, NEW t \in Text
  PROVE  /\ NL \in Characters /\ Append(s, NL) \in Text
         /\ Parted(s, t) = Cat(Append(s, NL), t) /\ Parted(s, t) \in Text
<1>1. NL \in Characters
  BY TextAssumption
<1>2. Append(s, NL) \in Text /\ Append(s, NL) = s \o <<NL>>
  BY <1>1, AppendProperties, AppendIsConcat DEF Text
<1>3. Parted(s, t) = Cat(Append(s, NL), t)
  BY <1>2 DEF Parted, Cat
<1> QED
  BY <1>1, <1>2, <1>3, CatIsCat DEF Text

LEMMA WithCharOK ==
  ASSUME NEW lines \in Seq(Line), Len(lines) > 0, NEW c \in Characters
  PROVE  /\ WithChar(lines, c) \in Seq(Line)
         /\ Len(WithChar(lines, c)) = IF c = NL THEN Len(lines) + 1 ELSE Len(lines)
<1>1. Len(lines) \in Nat /\ Len(lines) \in 1..Len(lines) /\ <<>> \in Line
  BY LenProperties, EmptySeq DEF Line
<1>2. CASE c = NL
  <2> DEFINE nil == <<>>
  <2>1. nil \in Line
    BY <1>1
  <2> HIDE DEF nil
  <2>2. Append(lines, nil) \in Seq(Line) /\ Len(Append(lines, nil)) = Len(lines) + 1
    BY <2>1, AppendProperties
  <2> QED
    BY <1>2, <2>2 DEF WithChar, nil
<1>3. CASE c # NL
  <2> DEFINE last == lines[Len(lines)]
             more == Append(last, c)
  <2>1. more \in Line
    <3>1. last \in Line
      BY <1>1, ElementOfSeq
    <3>2. c \in Characters \ {NL}
      BY <1>3
    <3> HIDE DEF last
    <3> QED
      BY <3>1, <3>2, AppendProperties DEF Line
  <2>2. WithChar(lines, c) = [lines EXCEPT ![Len(lines)] = more]
    BY <1>3 DEF WithChar
  <2> HIDE DEF more
  <2> QED
    BY <1>1, <1>3, <2>1, <2>2, ExceptSeq
<1> QED
  BY <1>2, <1>3

\* A character goes to the last of the lines, whatever lines are before them.
LEMMA WithCharCat ==
  ASSUME NEW s \in Seq(Line), NEW t \in Seq(Line), Len(t) > 0, NEW c \in Characters
  PROVE  WithChar(Cat(s, t), c) = Cat(s, WithChar(t, c))
<1>1. <<>> \in Line
  BY EmptySeq DEF Line
<1>2. CASE c = NL
  <2> DEFINE nil == <<>>
  <2>1. nil \in Line
    BY <1>1
  <2>2. WithChar(Cat(s, t), c) = Append(Cat(s, t), nil) /\ WithChar(t, c) = Append(t, nil)
    BY <1>2 DEF WithChar
  <2> HIDE DEF nil
  <2> QED
    BY <2>1, <2>2, CatAppend
<1>3. CASE c # NL
  <2> DEFINE st == Cat(s, t)
             n == Len(st)
             a == WithChar(st, c)
             u == WithChar(t, c)
             b == Cat(s, u)
  <2>1. /\ st \in Seq(Line) /\ n = Len(s) + Len(t) /\ Len(s) \in Nat /\ Len(t) \in Nat
        /\ n > 0 /\ (\A i \in 1..Len(s) : st[i] = s[i])
        /\ \A i \in 1..Len(t) : st[Len(s) + i] = t[i]
    <3>1. /\ st \in Seq(Line) /\ n = Len(s) + Len(t) /\ Len(s) \in Nat /\ Len(t) \in Nat
          /\ (\A i \in 1..Len(s) : st[i] = s[i])
          /\ \A i \in 1..Len(t) : st[Len(s) + i] = t[i]
      <4>1. IsCat(Line, s, t, st)
        BY CatIsCat
      <4> HIDE DEF st
      <4> QED
        BY <4>1 DEF IsCat
    <3> HIDE DEF st, n
    <3>2. n > 0
      BY <3>1
    <3> QED
      BY <3>1, <3>2
  <2>2. a \in Seq(Line) /\ Len(a) = n /\ u \in Seq(Line) /\ Len(u) = Len(t)
    BY <1>3, <2>1, WithCharOK
  <2>3. /\ b \in Seq(Line) /\ Len(b) = n /\ (\A i \in 1..Len(s) : b[i] = s[i])
        /\ \A i \in 1..Len(t) : b[Len(s) + i] = u[i]
    <3> HIDE DEF u, n, st
    <3>1. /\ b \in Seq(Line) /\ Len(b) = Len(s) + Len(u)
          /\ (\A i \in 1..Len(s) : b[i] = s[i])
          /\ \A i \in 1..Len(u) : b[Len(s) + i] = u[i]
      <4>1. IsCat(Line, s, u, b)
        BY <2>2, CatIsCat
      <4> HIDE DEF b
      <4> QED
        BY <4>1 DEF IsCat
    <3> HIDE DEF b
    <3> QED
      BY <2>1, <2>2, <3>1
  <2>4. \A i \in 1..n : a[i] = IF i = n THEN Append(st[n], c) ELSE st[i]
    <3>1. a = [st EXCEPT ![n] = Append(@, c)] /\ DOMAIN st = 1..n
      BY <1>3, <2>1, LenProperties DEF WithChar
    <3> QED
      BY <3>1
  <2>5. \A i \in 1..Len(t) : u[i] = IF i = Len(t) THEN Append(t[Len(t)], c) ELSE t[i]
    <3>1. u = [t EXCEPT ![Len(t)] = Append(@, c)] /\ DOMAIN t = 1..Len(t)
      BY <1>3, LenProperties DEF WithChar
    <3> QED
      BY <3>1
  <2> HIDE DEF st, n, a, u, b
  <2>6. \A i \in 1..n : a[i] = b[i]
    <3> SUFFICES ASSUME NEW i \in 1..n
                 PROVE  a[i] = b[i]
      OBVIOUS
    <3>1. CASE i <= Len(s)
      <4>1. i \in 1..Len(s) /\ i # n
        BY <2>1, <3>1
      <4> QED
        BY <2>1, <2>3, <2>4, <4>1
    <3>2. CASE i > Len(s)
      <4> DEFINE j == i - Len(s)
      <4>1. j \in 1..Len(t) /\ i = Len(s) + j /\ (i = n <=> j = Len(t))
            /\ Len(t) \in 1..Len(t)
        BY <2>1, <3>2
      <4> HIDE DEF j
      <4>2. st[i] = t[j] /\ b[i] = u[j] /\ st[n] = t[Len(t)]
        BY <2>1, <2>3, <4>1
      <4> QED
        BY <2>4, <2>5, <4>1, <4>2
    <3> QED
      BY <2>1, <3>1, <3>2
  <2>7. a = b
    BY <2>2, <2>3, <2>6, SeqEqual
  <2> QED
    BY <2>7 DEF a, b, st, u
<1> QED
  BY <1>2, <1>3

-----------------------------------------------------------------------------
LEMMA LineCountAppend ==
  ASSUME NEW t \in Text, NEW c \in Characters
  PROVE  /\ LineCount(t) \in Nat
         /\ LineCount(Append(t, c)) = IF c = NL THEN LineCount(t) + 1 ELSE LineCount(t)
<1> DEFINE u == Append(t, c)
           n == Len(t)
           m == n + 1
           T == {i \in 1..n : t[i] = NL}
           U == {i \in 1..m : u[i] = NL}
<1>1. n \in Nat /\ Len(u) = m /\ (\A i \in 1..n : u[i] = t[i]) /\ u[m] = c
  BY AppendProperties, LenProperties DEF Text
<1>2. m \in 1..m /\ m \notin 1..n /\ \A i \in 1..m : i \in 1..n \/ i = m
  BY <1>1
<1>3. IsFiniteSet(T) /\ Cardinality(T) \in Nat
  <2>1. IsFiniteSet(1..n)
    BY <1>1, FS_Interval
  <2>2. IsFiniteSet(T)
    BY <2>1, FS_Subset
  <2> QED
    BY <2>2, FS_CardinalityType
<1>4. U = IF c = NL THEN T \cup {m} ELSE T
  <2> HIDE DEF u, m
  <2>1. \A i \in 1..n : i \in 1..m
    BY <1>1 DEF m
  <2> QED
    BY <1>1, <1>2, <2>1
<1>5. m \notin T
  BY <1>2
<1>6. LineCount(t) = Cardinality(T) /\ LineCount(u) = Cardinality(U)
  BY <1>1 DEF LineCount
<1> HIDE DEF T, U, u, m
<1> QED
  BY <1>3, <1>4, <1>5, <1>6, FS_AddElement DEF u

LEMMA LineCountNat ==
  ASSUME NEW t \in Text
  PROVE  LineCount(t) \in Nat
<1>1. Len(t) \in Nat
  BY LenProperties DEF Text
<1>2. IsFiniteSet(1..Len(t))
  BY <1>1, FS_Interval
<1>3. IsFiniteSet({i \in 1..Len(t) : t[i] = NL})
  BY <1>2, FS_Subset
<1> QED
  BY <1>3, FS_CardinalityType DEF LineCount

LEMMA LineCountEmpty == LineCount(<<>>) = 0
<1>1. {i \in 1..Len(<<>>) : <<>>[i] = NL} = {}
  <2>1. Len(<<>>) = 0
    OBVIOUS
  <2> QED
    BY <2>1
<1> QED
  BY <1>1, FS_EmptySet DEF LineCount

\* There is one line more than there are ends of lines, and none of them in a line.
LinesFacts(t, lines) ==
  lines \in Seq(Line) /\ Len(lines) \in Nat /\ Len(lines) > 0 /\ Len(lines) = LineCount(t) + 1

LEMMA LinesOK ==
  ASSUME NEW t \in Text
  PROVE  LinesFacts(t, Lines(t))
<1> DEFINE P == [s \in Seq(Characters) |-> LinesFacts(s, Lines(s))]
<1>1. P[<<>>]
  <2> DEFINE nil == <<>>
             one == <<nil>>
  <2>1. nil \in Line /\ nil \in Seq(Characters)
    BY EmptySeq DEF Line
  <2>2. Lines(nil) = one /\ LineCount(nil) = 0
    BY LinesEmpty, LineCountEmpty
  <2> HIDE DEF nil
  <2>3. one \in Seq(Line) /\ Len(one) = 1
    BY <2>1
  <2> HIDE DEF one
  <2>4. LinesFacts(nil, Lines(nil))
    BY <2>2, <2>3 DEF LinesFacts
  <2> QED
    BY <2>1, <2>4 DEF nil
<1>2. ASSUME NEW s \in Seq(Characters), NEW c \in Characters, P[s]
      PROVE  P[Append(s, c)]
  <2> DEFINE u == Append(s, c)
             lines == Lines(s)
             more == WithChar(lines, c)
  <2>1. s \in Text /\ u \in Seq(Characters)
    BY AppendProperties DEF Text
  <2>2. lines \in Seq(Line) /\ Len(lines) \in Nat /\ Len(lines) > 0 /\ Len(lines) = LineCount(s) + 1
    BY <1>2 DEF LinesFacts
  <2>3. Lines(u) = more
    BY <2>1, LinesAppend
  <2> HIDE DEF lines
  <2>4. more \in Seq(Line) /\ Len(more) = IF c = NL THEN Len(lines) + 1 ELSE Len(lines)
    BY <2>2, WithCharOK
  <2>5. LineCount(s) \in Nat /\ LineCount(u) = IF c = NL THEN LineCount(s) + 1 ELSE LineCount(s)
    BY <2>1, LineCountAppend
  <2> HIDE DEF more, u
  <2>6. LinesFacts(u, Lines(u))
    BY <2>2, <2>3, <2>4, <2>5 DEF LinesFacts
  <2> QED
    BY <2>1, <2>6 DEF u
<1>3. P \in [Seq(Characters) -> BOOLEAN]
  BY DEF LinesFacts
<1>4. P[t]
  <2> HIDE DEF P
  <2> QED
    BY <1>1, <1>2, <1>3, SeqInduction DEF Text
<1> QED
  BY <1>4 DEF Text

\* The lines of two texts with the end of a line between them are the lines of both.
LEMMA LinesParted ==
  ASSUME NEW s \in Text, NEW t \in Text
  PROVE  Lines(Parted(s, t)) = Cat(Lines(s), Lines(t))
<1> DEFINE OK(u) == Lines(Cat(Append(s, NL), u)) = Cat(Lines(s), Lines(u))
           P == [u \in Seq(Characters) |-> OK(u)]
           sn == Append(s, NL)
           ls == Lines(s)
<1>1. NL \in Characters /\ sn \in Text
  BY PartedOK, EmptySeq DEF Text
<1>2. ls \in Seq(Line)
  BY LinesOK DEF LinesFacts
<1>3. OK(<<>>)
  <2> DEFINE nil == <<>>
  <2>1. nil \in Line
    BY EmptySeq DEF Line
  <2>2. Lines(sn) = Append(ls, nil)
    BY <1>1, LinesAppend DEF WithChar
  <2>3. Cat(sn, <<>>) = sn
    BY <1>1, CatEmpty DEF Text
  <2>4. Cat(ls, <<nil>>) = Append(ls, nil)
    <3> HIDE DEF nil, ls
    <3> QED
      BY <1>2, <2>1, AppendIsConcat DEF Cat
  <2> QED
    BY <2>2, <2>3, <2>4, LinesEmpty
<1>4. ASSUME NEW u \in Seq(Characters), NEW c \in Characters, OK(u)
      PROVE  OK(Append(u, c))
  <2> DEFINE w == Cat(sn, u)
             lu == Lines(u)
  <2>1. u \in Text /\ w \in Text
    BY <1>1, CatIsCat DEF Text
  <2>2. lu \in Seq(Line) /\ Len(lu) > 0
    BY <2>1, LinesOK DEF LinesFacts
  <2>3. Cat(sn, Append(u, c)) = Append(w, c)
    <3>1. sn \in Seq(Characters)
      BY <1>1 DEF Text
    <3> HIDE DEF sn
    <3> QED
      BY <3>1, CatAppend
  <2>4. Lines(Append(w, c)) = WithChar(Lines(w), c) /\ Lines(Append(u, c)) = WithChar(lu, c)
    BY <2>1, LinesAppend
  <2>5. Lines(w) = Cat(ls, lu)
    BY <1>4
  <2> HIDE DEF w, lu, ls
  <2>6. WithChar(Cat(ls, lu), c) = Cat(ls, WithChar(lu, c))
    BY <1>2, <2>2, WithCharCat
  <2>7. Lines(Cat(sn, Append(u, c))) = Cat(ls, Lines(Append(u, c)))
    BY <2>3, <2>4, <2>5, <2>6, Zenon
  <2> QED
    BY <2>7 DEF ls
<1>5. P \in [Seq(Characters) -> BOOLEAN]
  OBVIOUS
<1>6. \A u \in Seq(Characters) : P[u]
  <2> HIDE DEF OK
  <2>1. P[<<>>]
    BY <1>3, EmptySeq
  <2>2. \A u \in Seq(Characters), c \in Characters : P[u] => P[Append(u, c)]
    BY <1>4, AppendProperties
  <2> HIDE DEF P
  <2> QED
    BY <1>5, <2>1, <2>2, SeqInduction
<1>7. OK(t)
  BY <1>6 DEF Text
<1> QED
  BY <1>7, PartedOK

LEMMA LineAlone ==
  ASSUME NEW line \in Line
  PROVE  Lines(line) = <<line>> /\ line \in Text
<1> DEFINE S == Characters \ {NL}
           P == [u \in Seq(S) |-> Lines(u) = <<u>>]
<1>1. S \subseteq Characters /\ Seq(S) \subseteq Text
  <2>1. \A u \in Seq(S) : u \in Seq(Characters)
    <3>1. S \subseteq Characters
      OBVIOUS
    <3> HIDE DEF S
    <3> QED
      BY <3>1, SeqMonotonic
  <2> QED
    BY <2>1 DEF Text
<1>2. P[<<>>]
  BY LinesEmpty, EmptySeq
<1>3. ASSUME NEW u \in Seq(S), NEW c \in S, P[u]
      PROVE  P[Append(u, c)]
  <2> DEFINE one == <<u>>
  <2>1. Lines(Append(u, c)) = WithChar(Lines(u), c) /\ Lines(u) = one
    BY <1>1, <1>3, LinesAppend
  <2>2. Append(u, c) \in Seq(S)
    BY AppendProperties
  <2>3. Len(one) = 1 /\ one[1] = u /\ [one EXCEPT ![1] = Append(u, c)] = <<Append(u, c)>>
    OBVIOUS
  <2>4. WithChar(one, c) = [one EXCEPT ![1] = Append(u, c)]
    BY <2>3 DEF WithChar
  <2> QED
    BY <2>1, <2>2, <2>3, <2>4
<1>4. P \in [Seq(S) -> BOOLEAN]
  OBVIOUS
<1>5. \A u \in Seq(S) : P[u]
  <2> HIDE DEF P, S
  <2> QED
    BY <1>2, <1>3, <1>4, SeqInduction
<1> QED
  BY <1>1, <1>5 DEF Line

\* Texts are joined to a text; and lines that are joined are the lines of the text.
LEMMA JoinOK ==
  ASSUME NEW ts \in Seq(Text)
  PROVE  Join(ts) \in Text
<1> DEFINE P == [u \in Seq(Text) |-> Join(u) \in Text]
<1>1. P[<<>>]
  BY JoinEmpty, EmptySeq DEF Text
<1>2. ASSUME NEW u \in Seq(Text), NEW t \in Text, P[u]
      PROVE  P[Append(u, t)]
  <2>1. Join(Append(u, t)) = IF u = <<>> THEN t ELSE Parted(Join(u), t)
    BY JoinAppend
  <2>2. Parted(Join(u), t) \in Text
    BY <1>2, PartedOK
  <2>3. Append(u, t) \in Seq(Text)
    BY AppendProperties
  <2>4. Join(Append(u, t)) \in Text
    BY <2>1, <2>2
  <2> QED
    BY <2>3, <2>4
<1>3. P \in [Seq(Text) -> BOOLEAN]
  OBVIOUS
<1> HIDE DEF P
<1>4. P[ts]
  BY <1>1, <1>2, <1>3, SeqInduction
<1> QED
  BY <1>4 DEF P

LEMMA LinesOfJoin ==
  ASSUME NEW lines \in Seq(Line), lines # <<>>
  PROVE  Lines(Join(lines)) = lines /\ Join(lines) \in Text
<1> DEFINE OK(u) == u # <<>> => Lines(Join(u)) = u /\ Join(u) \in Text
           P == [u \in Seq(Line) |-> OK(u)]
<1>1. OK(<<>>)
  OBVIOUS
<1>2. ASSUME NEW u \in Seq(Line), NEW line \in Line, OK(u)
      PROVE  OK(Append(u, line))
  <2>1. Join(Append(u, line)) = IF u = <<>> THEN line ELSE Parted(Join(u), line)
    BY JoinAppend
  <2>2. Lines(line) = <<line>> /\ line \in Text
    BY LineAlone
  <2>3. Append(u, line) = Cat(u, <<line>>)
    BY AppendIsConcat DEF Cat
  <2>4. CASE u = <<>>
    <3>1. Join(Append(u, line)) = line
      BY <2>1, <2>4
    <3>2. <<line>> \in Seq(Line)
      OBVIOUS
    <3>3. Cat(u, <<line>>) = <<line>>
      BY <2>4, <3>2, CatEmpty
    <3> QED
      BY <2>2, <2>3, <3>1, <3>3
  <2>5. CASE u # <<>>
    <3>1. Lines(Join(u)) = u /\ Join(u) \in Text
      BY <1>2, <2>5
    <3>2. Join(Append(u, line)) = Parted(Join(u), line)
      BY <2>1, <2>5
    <3>3. /\ Lines(Parted(Join(u), line)) = Cat(Lines(Join(u)), Lines(line))
          /\ Parted(Join(u), line) \in Text
      BY <2>2, <3>1, LinesParted, PartedOK
    <3> QED
      BY <2>2, <2>3, <3>1, <3>2, <3>3
  <2> QED
    BY <2>4, <2>5
<1>3. P \in [Seq(Line) -> BOOLEAN]
  OBVIOUS
<1>4. \A u \in Seq(Line) : P[u]
  <2> HIDE DEF OK
  <2>1. P[<<>>]
    BY <1>1, EmptySeq
  <2>2. \A u \in Seq(Line), c \in Line : P[u] => P[Append(u, c)]
    BY <1>2, AppendProperties
  <2> HIDE DEF P
  <2> QED
    BY <1>3, <2>1, <2>2, SeqInduction
<1> QED
  BY <1>4

-----------------------------------------------------------------------------
\* What is read of a text.

ReadUpto(t, n, a) == a[0] = <<>> /\ \A k \in 1..n : a[k] = WithRead(a[k - 1], t, k)
EndsInCR(s) == s # <<>> /\ s[Len(s)] = CR
Plain == Seq(Characters \ {CR})

LEMMA AsReadDef ==
  ASSUME NEW s, Len(s) \in Nat
  PROVE  \E upto : ReadUpto(s, Len(s), upto) /\ AsRead(s) = upto[Len(s)]
<1> DEFINE Is(g, n) == g = [k \in 0..n |-> IF k = 0 THEN <<>> ELSE WithRead(g[k - 1], s, k)]
           P == [n \in Nat |-> \E g : Is(g, n)]
           upto == CHOOSE g : Is(g, Len(s))
<1>1. P[0]
  <2>1. Is([k \in 0..0 |-> <<>>], 0)
    OBVIOUS
  <2> QED
    BY <2>1
<1>2. ASSUME NEW n \in Nat, P[n]
      PROVE  P[n + 1]
  <2>1. PICK g : Is(g, n)
    BY <1>2
  <2> DEFINE h == [k \in 0..(n + 1) |-> IF k = n + 1 THEN WithRead(g[n], s, n + 1) ELSE g[k]]
  <2>2. \A k \in 0..n : h[k] = g[k]
    OBVIOUS
  <2>3. \A k \in 0..(n + 1) : h[k] = IF k = 0 THEN <<>> ELSE WithRead(h[k - 1], s, k)
    <3> SUFFICES ASSUME NEW k \in 0..(n + 1)
                 PROVE  h[k] = IF k = 0 THEN <<>> ELSE WithRead(h[k - 1], s, k)
      OBVIOUS
    <3>1. CASE k = n + 1
      <4>1. k # 0 /\ k - 1 = n /\ n \in 0..n
        BY <3>1
      <4> QED
        BY <3>1, <4>1, <2>2
    <3>2. CASE k \in 1..n
      <4>1. k # 0 /\ k - 1 \in 0..n /\ k \in 0..n
        BY <3>2
      <4>2. g[k] = WithRead(g[k - 1], s, k)
        BY <4>1, <2>1
      <4> QED
        BY <4>1, <4>2, <2>2
    <3>3. CASE k = 0
      BY <3>3, <2>1, <2>2
    <3> QED
      BY <3>1, <3>2, <3>3
  <2>4. Is(h, n + 1)
    BY <2>3
  <2> HIDE DEF h, Is
  <2> QED
    BY <2>4
<1>3. \A n \in Nat : P[n]
  <2> HIDE DEF Is
  <2>1. P \in [Nat -> BOOLEAN]
    OBVIOUS
  <2> HIDE DEF P
  <2> QED
    BY <1>1, <1>2, <2>1, Induction
<1>4. Is(upto, Len(s))
  <2>1. \E g : Is(g, Len(s))
    BY <1>3
  <2> HIDE DEF Is
  <2> QED
    BY <2>1
<1>5. AsRead(s) = upto[Len(s)]
  BY DEF AsRead
<1> HIDE DEF upto
<1>6. upto[0] = <<>> /\ \A k \in 1..Len(s) : upto[k] = WithRead(upto[k - 1], s, k)
  <2>1. \A k \in 0..Len(s) : upto[k] = IF k = 0 THEN <<>> ELSE WithRead(upto[k - 1], s, k)
    BY <1>4, Zenon
  <2>2. 0 \in 0..Len(s) /\ \A k \in 1..Len(s) : k \in 0..Len(s) /\ k # 0
    OBVIOUS
  <2> HIDE DEF Is
  <2> QED
    BY <2>1, <2>2
<1> QED
  BY <1>5, <1>6 DEF ReadUpto

LEMMA AsReadSame ==
  ASSUME NEW n \in Nat, NEW t, NEW a, ReadUpto(t, n, a), NEW b, ReadUpto(t, n, b)
  PROVE  a[n] = b[n]
BY SameUpto DEF ReadUpto

LEMMA AsReadEmpty == AsRead(<<>>) = <<>>
<1>1. Len(<<>>) = 0
  OBVIOUS
<1>2. PICK a : ReadUpto(<<>>, Len(<<>>), a) /\ AsRead(<<>>) = a[Len(<<>>)]
  BY <1>1, AsReadDef
<1> QED
  BY <1>1, <1>2 DEF ReadUpto

\* What one more character adds: an NL after a CR adds nothing.
ReadOn(read, s, c) ==
  IF c = NL /\ EndsInCR(s) THEN read ELSE Append(read, IF c = CR THEN NL ELSE c)

LEMMA AsReadAppend ==
  ASSUME NEW s \in Text, NEW c \in Characters
  PROVE  AsRead(Append(s, c)) = ReadOn(AsRead(s), s, c)
<1> DEFINE t == Append(s, c)
           n == Len(s)
           m == n + 1
<1>1. n \in Nat /\ (s = <<>> <=> n = 0)
  BY LenProperties, EmptySeq DEF Text
<1>2. Len(t) = m /\ (\A k \in 1..n : t[k] = s[k]) /\ t[m] = c
  BY AppendProperties DEF Text
<1>3. m \in Nat /\ m \in 1..m /\ m - 1 = n /\ (m > 1 <=> n # 0) /\ \A k \in 1..n : k \in 1..m
  BY <1>1
<1> HIDE DEF t, m
<1>4. PICK a : ReadUpto(t, m, a) /\ AsRead(t) = a[m]
  BY <1>2, <1>3, AsReadDef
<1>5. PICK b : ReadUpto(s, n, b) /\ AsRead(s) = b[n]
  BY <1>1, AsReadDef
<1>6. ReadUpto(s, n, a)
  <2>1. a[0] = <<>>
    BY <1>4 DEF ReadUpto
  <2>2. ASSUME NEW k \in 1..n
        PROVE  a[k] = WithRead(a[k - 1], s, k)
    <3>1. a[k] = WithRead(a[k - 1], t, k)
      BY <1>3, <1>4 DEF ReadUpto
    <3>2. t[k] = s[k] /\ (k > 1 => k - 1 \in 1..n)
      BY <1>2
    <3>3. k > 1 => t[k - 1] = s[k - 1]
      BY <1>2, <3>2
    <3> QED
      BY <3>1, <3>2, <3>3 DEF WithRead
  <2> QED
    BY <2>1, <2>2 DEF ReadUpto
<1>7. a[n] = b[n]
  BY <1>1, <1>5, <1>6, AsReadSame
<1>8. a[m] = WithRead(a[n], t, m)
  BY <1>3, <1>4 DEF ReadUpto
<1>9. m > 1 => t[m - 1] = s[n]
  <2>1. m > 1 => n \in 1..n
    BY <1>1, <1>3
  <2> QED
    BY <1>2, <1>3, <2>1
<1>10. WithRead(a[n], t, m) = ReadOn(a[n], s, c)
  BY <1>1, <1>2, <1>3, <1>9 DEF WithRead, ReadOn, EndsInCR
<1> QED
  BY <1>4, <1>5, <1>7, <1>8, <1>10 DEF t

LEMMA AsReadOK ==
  ASSUME NEW t \in Text
  PROVE  AsRead(t) \in Text
<1> DEFINE P == [u \in Seq(Characters) |-> AsRead(u) \in Text]
<1>1. P[<<>>]
  BY AsReadEmpty, EmptySeq DEF Text
<1>2. ASSUME NEW u \in Seq(Characters), NEW c \in Characters, P[u]
      PROVE  P[Append(u, c)]
  <2>1. AsRead(u) \in Seq(Characters) /\ u \in Text
    BY <1>2 DEF Text
  <2>2. AsRead(Append(u, c)) = ReadOn(AsRead(u), u, c)
    BY <2>1, AsReadAppend
  <2>3. NL \in Characters
    BY TextAssumption
  <2>4. Append(AsRead(u), NL) \in Seq(Characters) /\ Append(AsRead(u), c) \in Seq(Characters)
    BY <2>1, <2>3, AppendProperties
  <2>5. ReadOn(AsRead(u), u, c) \in Text
    BY <2>1, <2>4 DEF ReadOn, Text
  <2>6. Append(u, c) \in Seq(Characters)
    BY AppendProperties
  <2> QED
    BY <2>2, <2>5, <2>6
<1>3. P \in [Seq(Characters) -> BOOLEAN]
  OBVIOUS
<1> HIDE DEF P
<1>4. \A u \in Seq(Characters) : P[u]
  BY <1>1, <1>2, <1>3, SeqInduction
<1> QED
  BY <1>4 DEF P, Text

LEMMA PlainText ==
  ASSUME NEW t \in Plain
  PROVE  t \in Text
<1> DEFINE S == Characters \ {CR}
<1>1. S \subseteq Characters /\ t \in Seq(S)
  BY DEF Plain
<1> HIDE DEF S
<1>2. t \in Seq(Characters)
  BY <1>1, SeqMonotonic
<1> QED
  BY <1>2 DEF Text

\* A text without CR is read as it is.
LEMMA AsReadPlain ==
  ASSUME NEW t \in Plain
  PROVE  AsRead(t) = t
<1> DEFINE S == Characters \ {CR}
           P == [u \in Seq(S) |-> AsRead(u) = u]
<1>1. P[<<>>]
  BY AsReadEmpty, EmptySeq
<1>2. ASSUME NEW u \in Seq(S), NEW c \in S, P[u]
      PROVE  P[Append(u, c)]
  <2>1. u \in Text /\ c \in Characters /\ c # CR
    BY PlainText DEF Plain
  <2>2. AsRead(Append(u, c)) = ReadOn(AsRead(u), u, c)
    BY <2>1, AsReadAppend
  <2>3. ~EndsInCR(u)
    <3> SUFFICES ASSUME u # <<>>
                 PROVE  u[Len(u)] \in S
      BY DEF EndsInCR
    <3>1. Len(u) \in 1..Len(u)
      <4> HIDE DEF S
      <4> QED
        BY EmptySeq, LenProperties
    <3> HIDE DEF S
    <3> QED
      BY <3>1, ElementOfSeq
  <2>4. ReadOn(AsRead(u), u, c) = Append(AsRead(u), c)
    BY <2>1, <2>3 DEF ReadOn
  <2>5. AsRead(u) = u
    BY <1>2
  <2>6. Append(u, c) \in Seq(S)
    <3> HIDE DEF S
    <3> QED
      BY AppendProperties
  <2> QED
    BY <2>2, <2>4, <2>5, <2>6
<1>3. P \in [Seq(S) -> BOOLEAN]
  OBVIOUS
<1> HIDE DEF P, S
<1>4. \A u \in Seq(S) : P[u]
  BY <1>1, <1>2, <1>3, SeqInduction
<1> QED
  BY <1>4 DEF P, S, Plain

\* What is after a text without CR is read as if it stood alone.
LEMMA AsReadAfter ==
  ASSUME NEW h \in Plain, NEW t \in Text
  PROVE  AsRead(Cat(h, t)) = Cat(h, AsRead(t))
<1> DEFINE OK(u) == AsRead(Cat(h, u)) = Cat(h, AsRead(u))
           P == [u \in Seq(Characters) |-> OK(u)]
<1>0. h \in Seq(Characters)
  BY PlainText DEF Text
<1>1. OK(<<>>)
  BY <1>0, AsReadEmpty, AsReadPlain, CatEmpty
<1>2. ASSUME NEW u \in Seq(Characters), NEW c \in Characters, OK(u)
      PROVE  OK(Append(u, c))
  <2> DEFINE w == Cat(h, u)
             r == AsRead(u)
             d == IF c = CR THEN NL ELSE c
  <2>1. u \in Text /\ w \in Text /\ r \in Seq(Characters) /\ d \in Characters
    <3>1. u \in Text
      BY DEF Text
    <3>2. w \in Text
      BY <1>0, CatIsCat DEF Text
    <3>3. r \in Seq(Characters)
      BY <3>1, AsReadOK DEF Text
    <3>4. d \in Characters
      BY TextAssumption
    <3> QED
      BY <3>1, <3>2, <3>3, <3>4
  <2>2. Cat(h, Append(u, c)) = Append(w, c)
    BY <1>0, CatAppend
  <2>3. AsRead(Append(w, c)) = ReadOn(AsRead(w), w, c) /\ AsRead(Append(u, c)) = ReadOn(r, u, c)
    BY <2>1, AsReadAppend
  <2>4. EndsInCR(w) <=> EndsInCR(u)
    <3>1. CASE u = <<>>
      <4>1. w = h
        BY <1>0, <3>1, CatEmpty
      <4>2. ~EndsInCR(h)
        <5> DEFINE S == Characters \ {CR}
        <5> SUFFICES ASSUME h # <<>>
                     PROVE  h[Len(h)] \in S
          BY DEF EndsInCR
        <5>1. h \in Seq(S)
          BY DEF Plain
        <5> HIDE DEF S
        <5>2. Len(h) \in 1..Len(h)
          BY <5>1, EmptySeq, LenProperties
        <5> QED
          BY <5>1, <5>2, ElementOfSeq
      <4> QED
        BY <3>1, <4>1, <4>2 DEF EndsInCR
    <3>2. CASE u # <<>>
      <4>1. IsCat(Characters, h, u, w)
        BY <1>0, CatIsCat
      <4>2. Len(u) \in 1..Len(u) /\ Len(w) = Len(h) + Len(u) /\ Len(w) > 0
        BY <3>2, <4>1, EmptySeq, LenProperties DEF IsCat
      <4>3. w[Len(w)] = u[Len(u)] /\ w # <<>>
        BY <4>1, <4>2, EmptySeq DEF IsCat
      <4> HIDE DEF w
      <4> QED
        BY <3>2, <4>3 DEF EndsInCR
    <3> QED
      BY <3>1, <3>2
  <2>5. AsRead(w) = Cat(h, r)
    BY <1>2
  <2>6. Cat(h, Append(r, d)) = Append(Cat(h, r), d)
    BY <1>0, <2>1, CatAppend
  <2> HIDE DEF w, r, d
  <2>7. ReadOn(Cat(h, r), w, c) = Cat(h, ReadOn(r, u, c))
    BY <2>4, <2>6 DEF ReadOn, d
  <2>8. AsRead(Cat(h, Append(u, c))) = Cat(h, AsRead(Append(u, c)))
    BY <2>2, <2>3, <2>5, <2>7, Zenon
  <2> QED
    BY <2>8
<1>3. P \in [Seq(Characters) -> BOOLEAN]
  OBVIOUS
<1>4. \A u \in Seq(Characters) : P[u]
  <2> HIDE DEF OK
  <2>1. P[<<>>]
    BY <1>1, EmptySeq
  <2>2. \A u \in Seq(Characters), c \in Characters : P[u] => P[Append(u, c)]
    BY <1>2, AppendProperties
  <2> HIDE DEF P
  <2> QED
    BY <1>3, <2>1, <2>2, SeqInduction
<1> QED
  BY <1>4 DEF Text

-----------------------------------------------------------------------------
\* Blank lines lose their blanks.

Blanked(line) == IF IsBlank(line) THEN <<>> ELSE line
AllBlanked(lines) == [k \in DOMAIN lines |-> Blanked(lines[k])]

LEMMA BlankedOK ==
  ASSUME NEW line \in Line
  PROVE  Blanked(line) \in Line /\ Blanked(Blanked(line)) = Blanked(line)
<1>1. <<>> \in Line
  BY EmptySeq DEF Line
<1>2. CASE IsBlank(line)
  <2>1. Blanked(line) = <<>>
    BY <1>2 DEF Blanked
  <2>2. Blanked(<<>>) = <<>>
    BY DEF Blanked
  <2> QED
    BY <1>1, <2>1, <2>2
<1>3. CASE ~IsBlank(line)
  BY <1>3 DEF Blanked
<1> QED
  BY <1>2, <1>3

LEMMA AllBlankedOK ==
  ASSUME NEW lines \in Seq(Line)
  PROVE  /\ AllBlanked(lines) \in Seq(Line) /\ Len(AllBlanked(lines)) = Len(lines)
         /\ \A k \in 1..Len(lines) : AllBlanked(lines)[k] = Blanked(lines[k])
<1> DEFINE n == Len(lines)
           b == AllBlanked(lines)
<1>1. n \in Nat /\ DOMAIN lines = 1..n /\ \A k \in 1..n : lines[k] \in Line
  BY LenProperties, ElementOfSeq
<1>2. b = [k \in 1..n |-> Blanked(lines[k])]
  BY <1>1 DEF AllBlanked
<1>3. \A k \in 1..n : Blanked(lines[k]) \in Line
  BY <1>1, BlankedOK
<1> HIDE DEF b, n
<1>4. b \in [1..n -> Line] /\ \A k \in 1..n : b[k] = Blanked(lines[k])
  BY <1>2, <1>3
<1>5. b \in Seq(Line) /\ Len(b) = n
  <2>1. b \in Seq(Line)
    BY <1>1, <1>4, SeqDef
  <2>2. DOMAIN b = 1..Len(b) /\ Len(b) \in Nat /\ DOMAIN b = 1..n
    BY <1>4, <2>1, LenProperties
  <2>3. \A i, j \in Nat : 1..i = 1..j => i = j
    <3> SUFFICES ASSUME NEW i \in Nat, NEW j \in Nat, 1..i = 1..j
                 PROVE  ~(i < j) /\ ~(j < i)
      OBVIOUS
    <3>1. i < j => j \in 1..j /\ j \notin 1..i
      OBVIOUS
    <3>2. j < i => i \in 1..i /\ i \notin 1..j
      OBVIOUS
    <3> QED
      BY <3>1, <3>2
  <2> QED
    BY <1>1, <2>1, <2>2, <2>3
<1> QED
  BY <1>4, <1>5 DEF b, n

LEMMA RemoveEmptyLinesOK ==
  ASSUME NEW t \in Text
  PROVE  /\ RemoveEmptyLines(t) = Join(AllBlanked(Lines(t))) /\ RemoveEmptyLines(t) \in Text
         /\ Lines(RemoveEmptyLines(t)) = AllBlanked(Lines(t))
<1> DEFINE lines == Lines(t)
           b == AllBlanked(lines)
<1>1. lines \in Seq(Line) /\ Len(lines) > 0
  BY LinesOK DEF LinesFacts
<1>2. RemoveEmptyLines(t) = Join(b)
  BY DEF RemoveEmptyLines, AllBlanked, Blanked
<1> HIDE DEF lines
<1>3. b \in Seq(Line) /\ Len(b) > 0
  BY <1>1, AllBlankedOK
<1> HIDE DEF b
<1>4. b # <<>>
  BY <1>3, EmptySeq
<1>5. Lines(Join(b)) = b /\ Join(b) \in Text
  BY <1>3, <1>4, LinesOfJoin
<1> QED
  BY <1>2, <1>5 DEF b, lines

\* What stands before a place of a text, if the place is at the beginning of a line,
\* and after it, if the place is at the end of one.
Opens(p) == p = <<>> \/ \E a \in Text : p = Append(a, NL)
Closes(s) == s = <<>> \/ \E b \in Text : s = Cat(<<NL>>, b)

LEMMA LinesAfter ==
  ASSUME NEW p \in Text, Opens(p)
  PROVE  \E pre \in Seq(Line) :
           Len(pre) = LineCount(p) /\ \A u \in Text : Lines(Cat(p, u)) = Cat(pre, Lines(u))
<1>1. CASE p = <<>>
  <2> DEFINE nil == <<>>
  <2>1. nil \in Seq(Line) /\ Len(nil) = LineCount(p)
    BY <1>1, LineCountEmpty, EmptySeq
  <2>2. \A u \in Text : Lines(Cat(p, u)) = Cat(nil, Lines(u))
    <3> SUFFICES ASSUME NEW u \in Text
                 PROVE  Lines(Cat(p, u)) = Cat(nil, Lines(u))
      OBVIOUS
    <3>1. Cat(p, u) = u
      BY <1>1, CatEmpty DEF Text
    <3>2. Lines(u) \in Seq(Line)
      BY LinesOK DEF LinesFacts
    <3>3. Cat(nil, Lines(u)) = Lines(u)
      BY <3>2, CatEmpty
    <3> QED
      BY <3>1, <3>3
  <2> HIDE DEF nil
  <2> QED
    BY <2>1, <2>2
<1>2. ASSUME NEW a \in Text, p = Append(a, NL)
      PROVE  \E pre \in Seq(Line) :
               Len(pre) = LineCount(p) /\ \A u \in Text : Lines(Cat(p, u)) = Cat(pre, Lines(u))
  <2>1. Lines(a) \in Seq(Line) /\ Len(Lines(a)) = LineCount(a) + 1
    BY LinesOK DEF LinesFacts
  <2>2. NL \in Characters
    BY TextAssumption
  <2>3. LineCount(p) = LineCount(a) + 1
    BY <1>2, <2>2, LineCountAppend
  <2>4. \A u \in Text : Lines(Cat(p, u)) = Cat(Lines(a), Lines(u))
    BY <1>2, PartedOK, LinesParted
  <2> QED
    BY <2>1, <2>3, <2>4
<1> QED
  BY <1>1, <1>2 DEF Opens

LEMMA LinesBefore ==
  ASSUME NEW s \in Text, Closes(s)
  PROVE  \E suf \in Seq(Line) : \A u \in Text : Lines(Cat(u, s)) = Cat(Lines(u), suf)
<1>1. CASE s = <<>>
  <2> DEFINE nil == <<>>
  <2>1. nil \in Seq(Line)
    BY EmptySeq
  <2>2. \A u \in Text : Lines(Cat(u, s)) = Cat(Lines(u), nil)
    <3> SUFFICES ASSUME NEW u \in Text
                 PROVE  Lines(Cat(u, s)) = Cat(Lines(u), nil)
      OBVIOUS
    <3>1. Cat(u, s) = u
      BY <1>1, CatEmpty DEF Text
    <3>2. Lines(u) \in Seq(Line)
      BY LinesOK DEF LinesFacts
    <3>3. Cat(Lines(u), nil) = Lines(u)
      BY <3>2, CatEmpty
    <3> QED
      BY <3>1, <3>3
  <2> HIDE DEF nil
  <2> QED
    BY <2>1, <2>2
<1>2. ASSUME NEW b \in Text, s = Cat(<<NL>>, b)
      PROVE  \E suf \in Seq(Line) : \A u \in Text : Lines(Cat(u, s)) = Cat(Lines(u), suf)
  <2>1. Lines(b) \in Seq(Line)
    BY LinesOK DEF LinesFacts
  <2>2. \A u \in Text : Lines(Cat(u, s)) = Cat(Lines(u), Lines(b))
    <3> SUFFICES ASSUME NEW u \in Text
                 PROVE  Lines(Cat(u, s)) = Cat(Lines(u), Lines(b))
      OBVIOUS
    <3>1. NL \in Characters /\ <<NL>> \in Text
      BY TextAssumption DEF Text
    <3>2. Cat(u, s) = Cat(Cat(u, <<NL>>), b)
      <4> DEFINE end == <<NL>>
      <4>1. end \in Seq(Characters) /\ u \in Seq(Characters) /\ b \in Seq(Characters)
        BY <3>1 DEF Text
      <4>2. s = Cat(end, b)
        BY <1>2
      <4> HIDE DEF end
      <4>3. Cat(Cat(u, end), b) = Cat(u, Cat(end, b))
        BY <4>1, CatAssociative
      <4> QED
        BY <4>2, <4>3 DEF end
    <3>3. Cat(u, s) = Parted(u, b)
      BY <3>2 DEF Cat, Parted
    <3> QED
      BY <3>3, LinesParted
  <2> QED
    BY <2>1, <2>2
<1> QED
  BY <1>1, <1>2 DEF Closes

-----------------------------------------------------------------------------
\* A part of a text.
LEMMA PartOK ==
  ASSUME NEW S, NEW t \in Seq(S), NEW m \in Int, NEW n \in Int, m >= 1, n <= Len(t)
  PROVE  /\ SubSeq(t, m, n) \in Seq(S)
         /\ Len(SubSeq(t, m, n)) = IF m <= n THEN n - m + 1 ELSE 0
         /\ \A i \in 1..(n - m + 1) : SubSeq(t, m, n)[i] = t[m + i - 1]
<1>1. Len(t) \in Nat
  BY LenProperties
<1>2. \A i \in m..n : i \in 1..Len(t)
  BY <1>1
<1>3. \A i \in m..n : t[i] \in S
  BY <1>2, ElementOfSeq
<1> QED
  BY <1>3, SubSeqProperties

LEMMA Parts ==
  ASSUME NEW t \in Text, NEW find \in Text, NEW i \in Occurrences(find, t)
  PROVE  /\ Len(t) \in Nat /\ Len(find) \in Nat /\ i \in Nat /\ i >= 1 /\ i + Len(find) <= Len(t) + 1
         /\ SubSeq(t, 1, i - 1) \in Text /\ SubSeq(t, i + Len(find), Len(t)) \in Text
         /\ \A new \in Text : Splice(t, i, find, new)
              = Cat(Cat(SubSeq(t, 1, i - 1), new), SubSeq(t, i + Len(find), Len(t)))
         /\ Cat(Cat(SubSeq(t, 1, i - 1), find), SubSeq(t, i + Len(find), Len(t))) = t
<1> DEFINE n == Len(t)
           l == Len(find)
           p == SubSeq(t, 1, i - 1)
           s == SubSeq(t, i + l, n)
<1>1. n \in Nat /\ l \in Nat /\ t \in Seq(Characters)
  BY LenProperties DEF Text
<1>2. i \in 1..(n - l + 1) /\ SubSeq(t, i, i + l - 1) = find
  BY DEF Occurrences
<1>3. i \in Nat /\ i >= 1 /\ i + l <= n + 1 /\ i - 1 \in Int /\ i - 1 <= n
  BY <1>1, <1>2
<1>4. p \in Text /\ s \in Text
  <2>1. i + l \in Int /\ n \in Int /\ i + l >= 1 /\ n <= n /\ 1 \in Int /\ 1 >= 1
    BY <1>1, <1>3
  <2> QED
    BY <1>1, <1>3, <2>1, PartOK DEF Text
<1>5. \A new \in Text : Splice(t, i, find, new) = Cat(Cat(p, new), s)
  <2> SUFFICES ASSUME NEW new \in Text
               PROVE  Splice(t, i, find, new) = Cat(Cat(p, new), s)
    OBVIOUS
  <2>1. Splice(t, i, find, new) = p \o new \o s
    BY DEF Splice
  <2> HIDE DEF p, s
  <2> QED
    BY <2>1 DEF Cat
<1>6. Cat(Cat(p, find), s) = t
  <2> DEFINE k == i + l - 1
  <2>1. /\ 1 \in 1..(n + 1) /\ i - 1 \in 1 - 1..n /\ k \in (i - 1)..n /\ i - 1 + 1 = i
        /\ k \in 1 - 1..n /\ n \in k..n /\ k + 1 = i + l
    BY <1>1, <1>3
  <2> HIDE DEF k
  <2>2. SubSeq(t, 1, i - 1) \o SubSeq(t, i - 1 + 1, k) = SubSeq(t, 1, k)
    BY <1>1, <2>1, ConcatAdjacentSubSeq
  <2>3. SubSeq(t, 1, k) \o SubSeq(t, k + 1, n) = SubSeq(t, 1, n)
    BY <1>1, <2>1, ConcatAdjacentSubSeq
  <2>4. SubSeq(t, 1, n) = t
    BY <1>1, SubSeqFull
  <2>5. SubSeq(t, i, k) = find
    BY <1>2 DEF k
  <2>6. p \o find = SubSeq(t, 1, k) /\ SubSeq(t, 1, k) \o s = t
    BY <2>1, <2>2, <2>3, <2>4, <2>5
  <2> HIDE DEF p, s
  <2> QED
    BY <2>6 DEF Cat
<1> QED
  BY <1>1, <1>3, <1>4, <1>5, <1>6

LEMMA FullLinesParts ==
  ASSUME NEW t \in Text, NEW find \in Text, NEW i \in Occurrences(find, t),
         IsFullLineMatch(t, find, i)
  PROVE  Opens(SubSeq(t, 1, i - 1)) /\ Closes(SubSeq(t, i + Len(find), Len(t)))
<1> DEFINE n == Len(t)
           j == i + Len(find)
<1>1. /\ t \in Seq(Characters) /\ n \in Nat /\ i \in Nat /\ i >= 1 /\ j \in Nat /\ j >= 1
      /\ i - 1 <= n /\ j <= n + 1
  BY Parts DEF Text
<1>2. i = 1 => Opens(SubSeq(t, 1, i - 1))
  <2>1. SubSeq(t, 1, 1 - 1) = <<>>
    BY SubSeqEmpty
  <2> QED
    BY <2>1 DEF Opens
<1>3. Opens(SubSeq(t, 1, i - 1))
  <2> SUFFICES ASSUME i # 1
               PROVE  Opens(SubSeq(t, 1, i - 1))
    BY <1>2
  <2>1. t[i - 1] = NL
    BY DEF IsFullLineMatch
  <2> DEFINE m == i - 1
             a == SubSeq(t, 1, m - 1)
  <2>2. /\ m \in 1..n /\ 1 \in 1..n /\ m - 1 \in Int /\ 1 \in Int /\ 1 >= 1 /\ m - 1 <= n
        /\ m \in 1..Len(t)
    BY <1>1
  <2>3. a \in Seq(Characters)
    BY <1>1, <2>2, PartOK
  <2>4. SubSeq(t, 1, m) = SubSeq(t, 1, m - 1) \o <<t[m]>>
    BY <1>1, <2>2, SubSeqRecursiveSecond
  <2>5. a \o <<NL>> = Append(a, NL)
    <3>1. NL \in Characters
      BY TextAssumption
    <3> HIDE DEF a
    <3> QED
      BY <2>3, <3>1, AppendIsConcat
  <2>6. SubSeq(t, 1, m) = Append(a, NL)
    BY <2>1, <2>4, <2>5
  <2> HIDE DEF a
  <2> QED
    BY <2>3, <2>6 DEF Opens, Text
<1>4. CASE j = n + 1
  <2>1. SubSeq(t, j, n) = <<>>
    BY <1>1, <1>4, SubSeqEmpty
  <2> QED
    BY <1>3, <2>1 DEF Closes
<1>5. CASE j # n + 1
  <2>1. t[j] = NL
    BY <1>5 DEF IsFullLineMatch
  <2> DEFINE b == SubSeq(t, j + 1, n)
  <2>2. j \in 1..n /\ n \in j..n /\ j + 1 \in Int /\ n \in Int /\ j + 1 >= 1 /\ n <= Len(t)
    BY <1>1, <1>5
  <2>3. b \in Seq(Characters)
    BY <1>1, <2>2, PartOK
  <2>4. SubSeq(t, j, n) = <<t[j]>> \o SubSeq(t, j + 1, n)
    BY <1>1, <2>2, SubSeqRecursiveFirst
  <2>5. SubSeq(t, j, n) = Cat(<<NL>>, b)
    BY <2>1, <2>4 DEF Cat
  <2> HIDE DEF b
  <2>6. Closes(SubSeq(t, j, n))
    BY <2>3, <2>5 DEF Closes, Text
  <2> QED
    BY <1>3, <2>6
<1> QED
  BY <1>4, <1>5

\* Lines that are the same when they are blanked, before and after new lines.
LEMMA BlankedAround ==
  ASSUME NEW lines \in Seq(Line), NEW pre \in Seq(Line), NEW find \in Seq(Line),
         NEW suf \in Seq(Line), AllBlanked(lines) = Cat(Cat(pre, find), suf),
         NEW new \in Seq(Line), NEW cut, cut = Len(pre), NEW end, end = cut + Len(find)
  PROVE  /\ cut \in Nat /\ end \in Nat /\ cut <= end /\ end <= Len(lines) /\ Len(lines) \in Nat
         /\ SubSeq(lines, 1, cut) \in Seq(Line) /\ SubSeq(lines, end + 1, Len(lines)) \in Seq(Line)
         /\ AllBlanked(Cat(Cat(SubSeq(lines, 1, cut), new), SubSeq(lines, end + 1, Len(lines))))
              = AllBlanked(Cat(Cat(pre, new), suf))
<1> DEFINE n == Len(lines)
           P == SubSeq(lines, 1, cut)
           Q == SubSeq(lines, end + 1, n)
           b == AllBlanked(lines)
           pf == Cat(pre, find)
           xp == Cat(P, new)
           x == Cat(xp, Q)
           yp == Cat(pre, new)
           y == Cat(yp, suf)
<1>1. /\ b \in Seq(Line) /\ Len(b) = n /\ n \in Nat
      /\ \A k \in 1..n : b[k] = Blanked(lines[k]) /\ lines[k] \in Line
  BY AllBlankedOK, LenProperties, ElementOfSeq
<1>2. IsCat(Line, pre, find, pf) /\ pf \in Seq(Line)
  BY CatIsCat
<1>3. IsCat(Line, pf, suf, b)
  BY <1>2, CatIsCat
<1> HIDE DEF b, pf
<1>4. /\ cut \in Nat /\ end \in Nat /\ cut <= end /\ end <= n /\ Len(suf) = n - end
      /\ Len(suf) \in Nat /\ Len(pf) = end
  BY <1>1, <1>2, <1>3 DEF IsCat
<1>5. \A k \in 1..cut : k \in 1..n /\ k \in 1..end /\ b[k] = pre[k]
  <2>1. \A k \in 1..cut : k \in 1..n /\ k \in 1..end
    BY <1>4, <1>1
  <2>2. \A k \in 1..cut : pf[k] = pre[k]
    BY <1>2 DEF IsCat
  <2>3. \A k \in 1..end : b[k] = pf[k]
    BY <1>3, <1>4 DEF IsCat
  <2> QED
    BY <2>1, <2>2, <2>3
<1>6. \A k \in 1..(n - end) : end + k \in 1..n /\ b[end + k] = suf[k]
  <2>1. \A k \in 1..(n - end) : end + k \in 1..n
    BY <1>4, <1>1
  <2>2. \A k \in 1..Len(suf) : b[Len(pf) + k] = suf[k]
    BY <1>3 DEF IsCat
  <2> QED
    BY <1>4, <2>1, <2>2
<1>7. P \in Seq(Line) /\ Len(P) = cut /\ \A k \in 1..cut : P[k] = lines[k]
  <2>1. 1 \in Int /\ cut \in Int /\ 1 >= 1 /\ cut <= Len(lines)
    BY <1>4
  <2>2. /\ P \in Seq(Line) /\ Len(P) = IF 1 <= cut THEN cut - 1 + 1 ELSE 0
        /\ \A k \in 1..(cut - 1 + 1) : P[k] = lines[1 + k - 1]
    BY <2>1, PartOK
  <2>3. cut - 1 + 1 = cut /\ (~(1 <= cut) => cut = 0) /\ \A k \in 1..cut : 1 + k - 1 = k
    BY <1>4
  <2> HIDE DEF P
  <2> QED
    BY <2>2, <2>3
<1>8. Q \in Seq(Line) /\ Len(Q) = n - end /\ \A k \in 1..(n - end) : Q[k] = lines[end + k]
  <2>1. end + 1 \in Int /\ n \in Int /\ end + 1 >= 1 /\ n <= Len(lines)
    BY <1>1, <1>4
  <2>2. /\ Q \in Seq(Line) /\ Len(Q) = IF end + 1 <= n THEN n - (end + 1) + 1 ELSE 0
        /\ \A k \in 1..(n - (end + 1) + 1) : Q[k] = lines[end + 1 + k - 1]
    BY <2>1, PartOK
  <2>3. /\ n - (end + 1) + 1 = n - end /\ (~(end + 1 <= n) => n - end = 0)
        /\ (end + 1 <= n => n - (end + 1) + 1 = n - end)
        /\ \A k \in 1..(n - end) : end + 1 + k - 1 = end + k
    BY <1>1, <1>4
  <2> HIDE DEF Q, n
  <2>4. Len(Q) = n - end
    BY <2>2, <2>3
  <2>5. \A k \in 1..(n - end) : Q[k] = lines[end + 1 + k - 1]
    BY <2>2, <2>3, Zenon
  <2>6. \A k \in 1..(n - end) : Q[k] = lines[end + k]
    BY <2>3, <2>5
  <2> QED
    BY <2>2, <2>4, <2>6
<1> HIDE DEF P, Q
<1>9. IsCat(Line, P, new, xp) /\ xp \in Seq(Line) /\ IsCat(Line, pre, new, yp) /\ yp \in Seq(Line)
  BY <1>7, CatIsCat
<1> HIDE DEF xp, yp
<1>10. IsCat(Line, xp, Q, x) /\ x \in Seq(Line) /\ IsCat(Line, yp, suf, y) /\ y \in Seq(Line)
  BY <1>8, <1>9, CatIsCat
<1> HIDE DEF x, y
<1> DEFINE l == Len(new)
           m == cut + l
<1>11. /\ l \in Nat /\ Len(xp) = m /\ Len(yp) = m /\ Len(x) = m + (n - end) /\ Len(y) = m + (n - end)
       /\ m \in Nat /\ n - end \in Nat
  BY <1>4, <1>7, <1>8, <1>9, <1>10 DEF IsCat
<1>12. \A k \in 1..Len(x) : Blanked(x[k]) = Blanked(y[k])
  <2> SUFFICES ASSUME NEW k \in 1..Len(x)
               PROVE  Blanked(x[k]) = Blanked(y[k])
    OBVIOUS
  <2>1. CASE k <= cut
    <3>1. k \in 1..cut /\ k \in 1..m
      BY <1>4, <1>11, <2>1
    <3>2. xp[k] = P[k] /\ yp[k] = pre[k]
      BY <1>4, <1>7, <1>9, <3>1 DEF IsCat
    <3>3. x[k] = xp[k] /\ y[k] = yp[k]
      BY <1>10, <1>11, <3>1 DEF IsCat
    <3>4. x[k] = lines[k] /\ y[k] = Blanked(lines[k]) /\ lines[k] \in Line
      BY <1>1, <1>5, <1>7, <3>1, <3>2, <3>3
    <3> QED
      BY <3>4, BlankedOK
  <2>2. CASE k > cut /\ k <= m
    <3> DEFINE j == k - cut
    <3>1. j \in 1..l /\ k = cut + j /\ k \in 1..m
      BY <1>4, <1>11, <2>2
    <3> HIDE DEF j
    <3>2. xp[k] = new[j] /\ yp[k] = new[j]
      BY <1>4, <1>7, <1>9, <3>1 DEF IsCat
    <3>3. x[k] = xp[k] /\ y[k] = yp[k]
      BY <1>10, <1>11, <3>1 DEF IsCat
    <3> QED
      BY <3>2, <3>3
  <2>3. CASE k > m
    <3> DEFINE j == k - m
    <3>1. j \in 1..(n - end) /\ k = m + j
      BY <1>11, <2>3
    <3> HIDE DEF j
    <3>2. x[k] = Q[j] /\ y[k] = suf[j]
      BY <1>4, <1>8, <1>10, <1>11, <3>1 DEF IsCat
    <3>3. x[k] = lines[end + j] /\ y[k] = Blanked(lines[end + j]) /\ lines[end + j] \in Line
      BY <1>1, <1>6, <1>8, <3>1, <3>2
    <3> QED
      BY <3>3, BlankedOK
  <2> QED
    BY <1>4, <1>11, <2>1, <2>2, <2>3
<1>13. AllBlanked(x) = AllBlanked(y)
  <2> DEFINE bx == AllBlanked(x)
             by == AllBlanked(y)
  <2>1. /\ bx \in Seq(Line) /\ Len(bx) = Len(x) /\ \A k \in 1..Len(x) : bx[k] = Blanked(x[k])
    BY <1>10, AllBlankedOK
  <2>2. /\ by \in Seq(Line) /\ Len(by) = Len(y) /\ \A k \in 1..Len(y) : by[k] = Blanked(y[k])
    BY <1>10, AllBlankedOK
  <2> HIDE DEF bx, by
  <2>3. \A k \in 1..Len(bx) : bx[k] = by[k]
    BY <1>11, <1>12, <2>1, <2>2
  <2>4. bx = by
    BY <1>11, <2>1, <2>2, <2>3, SeqEqual
  <2> QED
    BY <2>4 DEF bx, by
<1> QED
  BY <1>1, <1>4, <1>7, <1>8, <1>13 DEF x, y, xp, yp, P, Q

\* Whole lines: the new text has the old lines before and after the new ones.
FullLines(original, find, new, i, x) ==
  LET text  == RemoveEmptyLines(original)
      cut   == LineCount(SubSeq(text, 1, i - 1))
      end   == cut + LineCount(find) + 1
      lines == Lines(original)
  IN  /\ cut \in Nat /\ end \in Nat /\ cut <= end /\ end <= Len(lines) /\ Len(lines) \in Nat
      /\ SubSeq(lines, 1, cut) \in Seq(Line) /\ SubSeq(lines, end + 1, Len(lines)) \in Seq(Line)
      /\ Lines(x) = Cat(Cat(SubSeq(lines, 1, cut), Lines(new)), SubSeq(lines, end + 1, Len(lines)))

LEMMA ReplacedFullLines ==
  ASSUME NEW original \in Text, NEW find \in Text, NEW new \in Text,
         NEW i \in Occurrences(find, RemoveEmptyLines(original)),
         IsFullLineMatch(RemoveEmptyLines(original), find, i)
  PROVE  LET text == RemoveEmptyLines(original)
             x    == ReplaceLines(text, find, original, new, i)
         IN  /\ x \in Text /\ FullLines(original, find, new, i, x)
             /\ AllBlanked(Lines(x)) = AllBlanked(Lines(Splice(text, i, find, new)))
<1> DEFINE text == RemoveEmptyLines(original)
           lines == Lines(original)
           p == SubSeq(text, 1, i - 1)
           s == SubSeq(text, i + Len(find), Len(text))
           cut == LineCount(p)
           end == cut + LineCount(find) + 1
           nl == Lines(new)
           fl == Lines(find)
           P == SubSeq(lines, 1, cut)
           Q == SubSeq(lines, end + 1, Len(lines))
           y == Cat(Cat(P, nl), Q)
<1>1. text \in Text /\ Lines(text) = AllBlanked(lines)
  BY RemoveEmptyLinesOK
<1>2. /\ p \in Text /\ s \in Text /\ Splice(text, i, find, new) = Cat(Cat(p, new), s)
      /\ text = Cat(Cat(p, find), s)
  BY <1>1, Parts
<1>3. Opens(p) /\ Closes(s)
  BY <1>1, FullLinesParts
<1>4. PICK pre \in Seq(Line) : Len(pre) = cut /\ \A u \in Text : Lines(Cat(p, u)) = Cat(pre, Lines(u))
  <2> HIDE DEF p
  <2> QED
    BY <1>2, <1>3, LinesAfter
<1>5. PICK suf \in Seq(Line) : \A u \in Text : Lines(Cat(u, s)) = Cat(Lines(u), suf)
  <2> HIDE DEF s
  <2> QED
    BY <1>2, <1>3, LinesBefore
<1>6. \A u \in Text : Lines(Cat(Cat(p, u), s)) = Cat(Cat(pre, Lines(u)), suf)
  <2> SUFFICES ASSUME NEW u \in Text
               PROVE  Lines(Cat(Cat(p, u), s)) = Cat(Cat(pre, Lines(u)), suf)
    OBVIOUS
  <2>1. Cat(p, u) \in Text
    <3> HIDE DEF p
    <3> QED
      BY <1>2, CatIsCat DEF Text
  <2>2. Lines(Cat(Cat(p, u), s)) = Cat(Lines(Cat(p, u)), suf)
    BY <1>5, <2>1, Zenon
  <2>3. Lines(Cat(p, u)) = Cat(pre, Lines(u))
    BY <1>4, Zenon
  <2> QED
    BY <2>2, <2>3, Zenon
<1>7. /\ nl \in Seq(Line) /\ fl \in Seq(Line) /\ lines \in Seq(Line)
      /\ Len(fl) = LineCount(find) + 1 /\ Len(nl) > 0 /\ Len(fl) \in Nat
  BY LinesOK DEF LinesFacts
<1>8. AllBlanked(lines) = Cat(Cat(pre, fl), suf)
  BY <1>1, <1>2, <1>6, Zenon
<1>9. Lines(Splice(text, i, find, new)) = Cat(Cat(pre, nl), suf)
  BY <1>2, <1>6, Zenon
<1>10. end = cut + Len(fl) /\ cut \in Nat /\ LineCount(find) \in Nat
  <2>1. cut \in Nat
    BY <1>4, LenProperties
  <2>2. Len(fl) - 1 = LineCount(find) /\ Len(fl) - 1 \in Nat
    <3> HIDE DEF fl
    <3>1. Len(fl) > 0
      BY LinesOK DEF LinesFacts, fl
    <3>2. LineCount(find) \in Nat
      BY LineCountNat
    <3> QED
      BY <1>7, <3>1, <3>2
  <2> HIDE DEF cut, fl
  <2> QED
    BY <1>7, <2>1, <2>2
<1>11. /\ end \in Nat /\ cut <= end /\ end <= Len(lines) /\ Len(lines) \in Nat
       /\ P \in Seq(Line) /\ Q \in Seq(Line) /\ AllBlanked(y) = AllBlanked(Cat(Cat(pre, nl), suf))
  <2>1. /\ lines \in Seq(Line) /\ pre \in Seq(Line) /\ fl \in Seq(Line) /\ suf \in Seq(Line)
        /\ nl \in Seq(Line) /\ cut = Len(pre) /\ end = cut + Len(fl)
        /\ AllBlanked(lines) = Cat(Cat(pre, fl), suf)
    BY <1>4, <1>7, <1>8, <1>10, Zenon
  <2> HIDE DEF cut, end, lines, nl, fl
  <2>2. /\ cut \in Nat /\ end \in Nat /\ cut <= end /\ end <= Len(lines) /\ Len(lines) \in Nat
        /\ P \in Seq(Line) /\ Q \in Seq(Line)
    BY <2>1, BlankedAround
  <2>3. AllBlanked(y) = AllBlanked(Cat(Cat(pre, nl), suf))
    BY <2>1, BlankedAround
  <2> QED
    BY <2>2, <2>3
<1>12. ReplaceLines(text, find, original, new, i) = Join(y)
  <2>1. Lines(new) = nl /\ P \o nl \o Q = y
    BY DEF Cat
  <2> QED
    BY <1>11, <2>1 DEF ReplaceLines
<1>13. y \in Seq(Line) /\ y # <<>>
  <2> HIDE DEF P, Q, nl
  <2> DEFINE z == Cat(P, nl)
  <2>1. IsCat(Line, P, nl, z) /\ z \in Seq(Line)
    BY <1>7, <1>11, CatIsCat
  <2> HIDE DEF z
  <2>2. IsCat(Line, z, Q, Cat(z, Q)) /\ Cat(z, Q) \in Seq(Line)
    BY <1>11, <2>1, CatIsCat
  <2>3. Len(Cat(z, Q)) > 0
    BY <1>7, <2>1, <2>2 DEF IsCat
  <2>4. Cat(z, Q) # <<>>
    BY <2>2, <2>3, EmptySeq
  <2> QED
    BY <2>2, <2>4 DEF z
<1>14. Lines(Join(y)) = y /\ Join(y) \in Text
  <2> HIDE DEF y
  <2> QED
    BY <1>13, LinesOfJoin
<1>15. FullLines(original, find, new, i, Join(y))
  BY <1>10, <1>11, <1>14 DEF FullLines
<1> QED
  BY <1>9, <1>11, <1>12, <1>14, <1>15

\* A sequence with other entries in the place of some, and what was before and after
\* them.
IsAround(S, s, mid, cut, end, rest, r) ==
  /\ s \in Seq(S) /\ mid \in Seq(S) /\ cut \in Nat /\ end \in Nat
  /\ cut <= end /\ end <= Len(s) /\ rest = Len(s) - end
  /\ r = Cat(Cat(SubSeq(s, 1, cut), mid), SubSeq(s, end + 1, Len(s)))

Around(s, cut, rest, r) ==
  /\ SubSeq(r, 1, cut) = SubSeq(s, 1, cut)
  /\ SubSeq(r, Len(r) - rest + 1, Len(r)) = SubSeq(s, Len(s) - rest + 1, Len(s))

LEMMA AroundKept ==
  ASSUME NEW S, NEW s, NEW mid, NEW cut, NEW end, NEW rest, NEW r,
         IsAround(S, s, mid, cut, end, rest, r)
  PROVE  Around(s, cut, rest, r)
<1> DEFINE P == SubSeq(s, 1, cut)
           Q == SubSeq(s, end + 1, Len(s))
           pm == Cat(P, mid)
           n == Len(r)
           A == SubSeq(r, 1, cut)
           B == SubSeq(r, n - rest + 1, n)
<1>0. /\ s \in Seq(S) /\ mid \in Seq(S) /\ cut \in Nat /\ end \in Nat
      /\ cut <= end /\ end <= Len(s) /\ rest = Len(s) - end
      /\ r = Cat(Cat(P, mid), Q)
  BY DEF IsAround
<1>1. Len(s) \in Nat /\ cut \in Int /\ end + 1 \in Int /\ 1 \in Int /\ end + 1 >= 1 /\ cut <= Len(s)
  BY <1>0, <1>0, LenProperties
<1>2. P \in Seq(S) /\ Len(P) = IF 1 <= cut THEN cut - 1 + 1 ELSE 0
  BY <1>0, <1>1, PartOK
<1>3. Q \in Seq(S) /\ Len(Q) = IF end + 1 <= Len(s) THEN Len(s) - (end + 1) + 1 ELSE 0
  BY <1>0, <1>1, PartOK
<1>4. Len(P) = cut /\ Len(Q) = rest /\ rest \in Nat
  BY <1>0, <1>1, <1>2, <1>3
<1>5. r = Cat(pm, Q) /\ Len(s) - rest + 1 = end + 1
  BY <1>0, <1>1
<1> HIDE DEF P, Q
<1>6. IsCat(S, P, mid, pm) /\ pm \in Seq(S)
  BY <1>0, <1>2, CatIsCat
<1> HIDE DEF pm
<1>7. IsCat(S, pm, Q, r) /\ r \in Seq(S)
  BY <1>0, <1>3, <1>5, <1>6, CatIsCat
<1>8. /\ Len(mid) \in Nat /\ Len(pm) = cut + Len(mid) /\ n = cut + Len(mid) + rest /\ n \in Nat
      /\ \A i \in 1..cut : r[i] = P[i]
      /\ \A i \in 1..rest : r[cut + Len(mid) + i] = Q[i]
  <2>1. /\ Len(mid) \in Nat /\ Len(pm) = cut + Len(mid) /\ \A i \in 1..cut : pm[i] = P[i]
    BY <1>0, <1>4, <1>6 DEF IsCat
  <2>2. /\ n = Len(pm) + rest /\ (\A i \in 1..Len(pm) : r[i] = pm[i])
        /\ \A i \in 1..rest : r[Len(pm) + i] = Q[i]
    BY <1>0, <1>4, <1>7 DEF IsCat
  <2> HIDE DEF n
  <2>3. \A i \in 1..cut : i \in 1..Len(pm)
    BY <1>0, <2>1
  <2> QED
    BY <1>0, <1>4, <2>1, <2>2, <2>3
<1> HIDE DEF n
<1>9. n - rest + 1 = cut + Len(mid) + 1 /\ n - rest + 1 >= 1 /\ n - rest + 1 \in Int /\ n \in Int
      /\ cut <= n /\ n <= n
  BY <1>0, <1>4, <1>8
<1>10. /\ A \in Seq(S) /\ Len(A) = IF 1 <= cut THEN cut - 1 + 1 ELSE 0
       /\ \A i \in 1..(cut - 1 + 1) : A[i] = r[1 + i - 1]
  BY <1>0, <1>1, <1>7, <1>9, PartOK DEF n
<1>11. /\ B \in Seq(S) /\ Len(B) = IF n - rest + 1 <= n THEN n - (n - rest + 1) + 1 ELSE 0
       /\ \A i \in 1..(n - (n - rest + 1) + 1) : B[i] = r[n - rest + 1 + i - 1]
  <2> DEFINE from == n - rest + 1
  <2>1. from \in Int /\ from >= 1 /\ n \in Int /\ n <= Len(r)
    BY <1>9 DEF n
  <2> HIDE DEF from
  <2>2. /\ SubSeq(r, from, n) \in Seq(S)
        /\ Len(SubSeq(r, from, n)) = IF from <= n THEN n - from + 1 ELSE 0
        /\ \A i \in 1..(n - from + 1) : SubSeq(r, from, n)[i] = r[from + i - 1]
    BY <1>7, <2>1, PartOK
  <2> QED
    BY <2>2 DEF from
<1> HIDE DEF A, B
<1>12. A = P
  <2>1. Len(A) = Len(P) /\ \A i \in 1..Len(A) : A[i] = P[i]
    BY <1>0, <1>4, <1>8, <1>10
  <2> QED
    BY <1>0, <1>2, <1>10, <2>1, SeqEqual
<1>13. B = Q
  <2>1. Len(B) = rest /\ n - (n - rest + 1) + 1 = rest
    BY <1>0, <1>4, <1>8, <1>11
  <2>2. \A i \in 1..rest : n - rest + 1 + i - 1 = cut + Len(mid) + i
    BY <1>0, <1>4, <1>8
  <2>3. \A i \in 1..rest : B[i] = Q[i]
    BY <1>0, <1>8, <1>11, <2>1, <2>2
  <2> QED
    BY <1>0, <1>3, <1>4, <1>11, <2>1, <2>3, SeqEqual
<1> QED
  BY <1>0, <1>5, <1>12, <1>13 DEF A, B, P, Q, n, Around

\* What a replacement of one text by another keeps of a file.
RestKept(old, asked, new, x) ==
  LET find  == RemoveEmptyLines(asked)
      text  == RemoveEmptyLines(old)
      i     == CHOOSE n \in Occurrences(find, text) : TRUE
      cut   == LineCount(SubSeq(text, 1, i - 1))
      rest  == Len(Lines(old)) - cut - LineCount(find) - 1
      lines == Lines(x)
  IN  /\ RemoveEmptyLines(x) = RemoveEmptyLines(Splice(text, i, find, new))
      /\ IsFullLineMatch(text, find, i) =>
           /\ SubSeq(lines, 1, cut) = SubSeq(Lines(old), 1, cut)
           /\ SubSeq(lines, Len(lines) - rest + 1, Len(lines))
                = SubSeq(Lines(old), Len(Lines(old)) - rest + 1, Len(Lines(old)))

LEMMA StrReplacedOK ==
  ASSUME NEW old \in Text, NEW asked \in Text, NEW new \in Text,
         StrReplaced(old, asked, new) # None
  PROVE  /\ StrReplaced(old, asked, new) \in Text
         /\ RestKept(old, asked, new, StrReplaced(old, asked, new))
<1> DEFINE find == RemoveEmptyLines(asked)
           text == RemoveEmptyLines(old)
           at == Occurrences(find, text)
           i == CHOOSE n \in at : TRUE
           x == ReplaceLines(text, find, old, new, i)
           cut == LineCount(SubSeq(text, 1, i - 1))
           lines == Lines(old)
           rest == Len(lines) - cut - LineCount(find) - 1
           y == Splice(text, i, find, new)
<1>1. find \in Text /\ text \in Text
  BY RemoveEmptyLinesOK
<1>2. StrReplaced(old, asked, new) = x /\ Cardinality(at) = 1
  BY Zenon DEF StrReplaced
<1>3. i \in at
  <2>1. at # {}
    <3>1. Cardinality({}) # 1
      BY FS_EmptySet
    <3> QED
      BY <1>2, <3>1, Zenon
  <2> QED
    BY <2>1
<1>4. y \in Text
  <2> HIDE DEF find, text, i
  <2> DEFINE p == SubSeq(text, 1, i - 1)
             s == SubSeq(text, i + Len(find), Len(text))
             pn == Cat(p, new)
  <2>1. p \in Text /\ s \in Text /\ y = Cat(pn, s)
    BY <1>1, <1>3, Parts
  <2> HIDE DEF p, s, y
  <2>2. pn \in Text
    BY <2>1, CatIsCat DEF Text
  <2> HIDE DEF pn
  <2> QED
    BY <2>1, <2>2, CatIsCat DEF Text
<1>5. CASE ~IsFullLineMatch(text, find, i)
  <2>1. x = y
    BY <1>5 DEF ReplaceLines
  <2> QED
    BY <1>2, <1>4, <1>5, <2>1, Zenon DEF RestKept
<1>6. CASE IsFullLineMatch(text, find, i)
  <2>1. x \in Text /\ FullLines(old, find, new, i, x) /\ AllBlanked(Lines(x)) = AllBlanked(Lines(y))
    <3> HIDE DEF find, i
    <3> QED
      BY <1>1, <1>3, <1>6, ReplacedFullLines
  <2>2. RemoveEmptyLines(x) = RemoveEmptyLines(y)
    <3> HIDE DEF x, y
    <3>1. RemoveEmptyLines(x) = Join(AllBlanked(Lines(x))) /\ RemoveEmptyLines(y) = Join(AllBlanked(Lines(y)))
      BY <1>4, <2>1, RemoveEmptyLinesOK
    <3> QED
      BY <2>1, <3>1, Zenon
  <2>3. /\ SubSeq(Lines(x), 1, cut) = SubSeq(lines, 1, cut)
        /\ SubSeq(Lines(x), Len(Lines(x)) - rest + 1, Len(Lines(x)))
             = SubSeq(lines, Len(lines) - rest + 1, Len(lines))
    <3> DEFINE end == cut + LineCount(find) + 1
               mid == Lines(new)
               r == Lines(x)
    <3>1. /\ cut \in Nat /\ end \in Nat /\ cut <= end /\ end <= Len(lines) /\ Len(lines) \in Nat
          /\ r = Cat(Cat(SubSeq(lines, 1, cut), mid), SubSeq(lines, end + 1, Len(lines)))
      BY <2>1 DEF FullLines
    <3>2. lines \in Seq(Line) /\ mid \in Seq(Line)
      BY LinesOK DEF LinesFacts
    <3>3. rest = Len(lines) - end
      <4>1. LineCount(find) \in Nat
        BY <1>1, LineCountNat
      <4> HIDE DEF cut, find, lines
      <4> QED
        BY <3>1, <4>1
    <3> HIDE DEF cut, end, mid, r, lines, rest
    <3>4. /\ SubSeq(r, 1, cut) = SubSeq(lines, 1, cut)
          /\ SubSeq(r, Len(r) - rest + 1, Len(r)) = SubSeq(lines, Len(lines) - rest + 1, Len(lines))
      <4>1. IsAround(Line, lines, mid, cut, end, rest, r)
        BY <3>1, <3>2, <3>3, Zenon DEF IsAround
      <4>2. Around(lines, cut, rest, r)
        BY <4>1, AroundKept, Zenon
      <4> QED
        BY <4>2, Zenon DEF Around
    <3> QED
      BY <3>4, Zenon DEF r
  <2> QED
    BY <1>2, <2>1, <2>2, <2>3, Zenon DEF RestKept
<1> QED
  BY <1>5, <1>6

\* Every change of a text gives a text, if it gives anything.
LEMMA UnnumberedOK ==
  ASSUME NEW numbered \in NumberedLines
  PROVE  Unnumbered(numbered) \in Seq(Text)
<1>1. Len(numbered) \in Nat /\ DOMAIN numbered = 1..Len(numbered)
  BY LenProperties DEF NumberedLines
<1>2. \A k \in 1..Len(numbered) : numbered[k] \in Nat \X Seq(Characters)
  BY ElementOfSeq DEF NumberedLines
<1>3. \A k \in 1..Len(numbered) : numbered[k][2] \in Text
  BY <1>2 DEF Text
<1> QED
  BY <1>1, <1>3 DEF Unnumbered

LEMMA LinesAreTexts ==
  ASSUME NEW t \in Text
  PROVE  Lines(t) \in Seq(Text)
<1>1. Lines(t) \in Seq(Line)
  BY LinesOK DEF LinesFacts
<1>2. Line \subseteq Text
  BY LineAlone
<1> QED
  BY <1>1, <1>2, SeqMonotonic, Zenon

LEMMA JoinAround ==
  ASSUME NEW lines \in Seq(Text), NEW new \in Seq(Text), NEW m \in Int, m <= Len(lines),
         NEW n \in Int, n >= 1
  PROVE  Join(SubSeq(lines, 1, m) \o new \o SubSeq(lines, n, Len(lines))) \in Text
<1> DEFINE P == SubSeq(lines, 1, m)
           Q == SubSeq(lines, n, Len(lines))
           pn == Cat(P, new)
           y == Cat(pn, Q)
<1>1. Len(lines) \in Int /\ 1 \in Int
  BY LenProperties
<1>2. P \in Seq(Text) /\ Q \in Seq(Text)
  BY <1>1, PartOK
<1> HIDE DEF P, Q
<1>3. pn \in Seq(Text)
  BY <1>2, CatIsCat
<1> HIDE DEF pn
<1>4. y \in Seq(Text)
  BY <1>2, <1>3, CatIsCat
<1> HIDE DEF y
<1>5. Join(y) \in Text
  BY <1>4, JoinOK
<1> QED
  BY <1>5, Zenon DEF y, pn, P, Q, Cat

LEMMA LineCountUpto ==
  ASSUME NEW t \in Text, NEW m \in Int, 0 <= m, m <= Len(t)
  PROVE  LineCount(SubSeq(t, 1, m)) <= LineCount(t)
<1> DEFINE p == SubSeq(t, 1, m)
           T == {i \in 1..Len(p) : p[i] = NL}
           U == {i \in 1..Len(t) : t[i] = NL}
<1>1. /\ p \in Seq(Characters) /\ Len(p) = IF 1 <= m THEN m - 1 + 1 ELSE 0
      /\ \A i \in 1..(m - 1 + 1) : p[i] = t[1 + i - 1]
  BY PartOK DEF Text
<1>2. Len(t) \in Nat
  BY LenProperties DEF Text
<1> HIDE DEF p
<1>3. Len(p) = m /\ \A i \in 1..m : p[i] = t[i]
  BY <1>1
<1>4. T \subseteq U
  BY <1>2, <1>3
<1>5. IsFiniteSet(U)
  <2>1. IsFiniteSet(1..Len(t)) /\ U \subseteq 1..Len(t)
    BY <1>2, FS_Interval
  <2> QED
    BY <2>1, FS_Subset
<1>6. Cardinality(T) <= Cardinality(U)
  BY <1>4, <1>5, FS_Subset
<1> QED
  BY <1>6 DEF LineCount, p

LEMMA MatchedChunkOK ==
  ASSUME NEW find \in NumberedLines, NEW t \in Text, MatchedChunk(find, Lines(t)) # None
  PROVE  LET chunk == MatchedChunk(find, Lines(t))
         IN  /\ chunk[1] \in Nat /\ chunk[1] >= 1 /\ chunk[1] <= Len(Lines(t))
             /\ chunk[2] \in Nat
<1> DEFINE lines == Lines(t)
           text == Join(lines)
           wanted == Join(Unnumbered(find))
           starts == {LineCount(SubSeq(text, 1, i - 1)) + 1 : i \in Occurrences(wanted, text)}
           n == find[1][1]
           Away(l) == IF l < n THEN n - l ELSE l - n
           near == {l \in starts : \A m \in starts : Away(l) <= Away(m)}
           best == Min(near)
           chunk == MatchedChunk(find, lines)
<1>1. /\ starts # {} /\ find # <<>> /\ chunk = <<best, best + LineCount(wanted)>>
  BY Zenon DEF MatchedChunk
<1>2. text \in Text /\ wanted \in Text /\ Len(lines) = LineCount(text) + 1
  <2>1. lines \in Seq(Line) /\ lines # <<>>
    BY LinesOK, EmptySeq DEF LinesFacts
  <2>2. text \in Text /\ Lines(text) = lines
    <3> HIDE DEF lines
    <3> QED
      BY <2>1, LinesOfJoin
  <2>3. Len(lines) = LineCount(text) + 1
    <3> HIDE DEF lines, text
    <3> QED
      BY <2>2, LinesOK DEF LinesFacts
  <2> QED
    BY <2>2, <2>3, UnnumberedOK, JoinOK
<1>3. n \in Int
  <2>1. find[1] \in Nat \X Seq(Characters)
    BY <1>1, EmptySeq, LenProperties, ElementOfSeq DEF NumberedLines
  <2> QED
    BY <2>1
<1>4. \A l \in starts : l \in Nat /\ l >= 1 /\ l <= Len(lines)
  <2> HIDE DEF text, wanted, lines
  <2> SUFFICES ASSUME NEW i \in Occurrences(wanted, text)
               PROVE  LET l == LineCount(SubSeq(text, 1, i - 1)) + 1
                      IN  l \in Nat /\ l >= 1 /\ l <= Len(lines)
    OBVIOUS
  <2>1. /\ Len(text) \in Nat /\ Len(wanted) \in Nat /\ i \in Nat /\ i >= 1
        /\ i + Len(wanted) <= Len(text) + 1 /\ SubSeq(text, 1, i - 1) \in Text
    BY <1>2, Parts
  <2>2. i - 1 \in Int /\ 0 <= i - 1 /\ i - 1 <= Len(text)
    BY <2>1
  <2>3. LineCount(SubSeq(text, 1, i - 1)) <= LineCount(text)
    BY <1>2, <2>2, LineCountUpto
  <2>4. LineCount(SubSeq(text, 1, i - 1)) \in Nat /\ LineCount(text) \in Nat
    BY <1>2, <2>1, LineCountNat
  <2> QED
    BY <1>2, <2>3, <2>4
<1>5. near # {} /\ near \subseteq starts
  <2> HIDE DEF starts
  <2> DEFINE D == {Away(l) : l \in starts}
  <2>1. \A l \in starts : Away(l) \in Nat
    BY <1>3, <1>4
  <2>2. D \in SUBSET Nat /\ D # {}
    BY <1>1, <2>1
  <2>3. PICK d \in D : \A e \in D : d <= e
    BY <2>2, LeastNat
  <2>4. PICK l \in starts : d = Away(l)
    BY <2>3
  <2>5. \A m \in starts : Away(l) <= Away(m)
    BY <2>3, <2>4
  <2> QED
    BY <2>5
<1>6. best \in near
  <2> HIDE DEF near, starts
  <2>1. near \in SUBSET Nat /\ near # {}
    BY <1>4, <1>5
  <2>2. \E x \in near : \A y \in near : x <= y
    BY <2>1, LeastNat
  <2> QED
    BY <2>2 DEF Min
<1>7. LineCount(wanted) \in Nat
  BY <1>2, LineCountNat
<1>8. best \in Nat /\ best >= 1 /\ best <= Len(lines)
  BY <1>4, <1>5, <1>6
<1> HIDE DEF best, wanted, lines
<1>9. chunk[1] = best /\ chunk[2] = best + LineCount(wanted)
  BY <1>1
<1> QED
  BY <1>7, <1>8, <1>9 DEF lines

LEMMA NumberedReplacedOK ==
  ASSUME NEW t \in Text, NEW find \in NumberedLines, NEW new \in NumberedLines
  PROVE  NumberedReplaced(t, find, new) \in Text \cup {None}
<1> DEFINE lines == Lines(RemoveEmptyLines(t))
           chunk == MatchedChunk(find, lines)
<1>1. CASE chunk = None
  BY <1>1 DEF NumberedReplaced
<1>2. CASE chunk # None
  <2>1. RemoveEmptyLines(t) \in Text
    BY RemoveEmptyLinesOK
  <2>2. chunk[1] \in Nat /\ chunk[1] >= 1 /\ chunk[1] <= Len(lines) /\ chunk[2] \in Nat
    BY <1>2, <2>1, MatchedChunkOK
  <2>3. lines \in Seq(Text) /\ Unnumbered(new) \in Seq(Text)
    BY <2>1, LinesAreTexts, UnnumberedOK
  <2>4. NumberedReplaced(t, find, new)
          = Join(SubSeq(lines, 1, chunk[1] - 1) \o Unnumbered(new)
                   \o SubSeq(lines, chunk[2] + 1, Len(lines)))
    BY <1>2, Zenon DEF NumberedReplaced
  <2> HIDE DEF lines, chunk
  <2>5. Len(lines) \in Nat
    BY <2>3, LenProperties
  <2>6. chunk[1] - 1 \in Int /\ chunk[1] - 1 <= Len(lines) /\ chunk[2] + 1 \in Int /\ chunk[2] + 1 >= 1
    BY <2>2, <2>5
  <2> QED
    BY <2>3, <2>4, <2>6, JoinAround
<1> QED
  BY <1>1, <1>2

LEMMA UptoOK ==
  ASSUME NEW n \in Int, NEW length \in Nat
  PROVE  Upto(n, length) \in Nat /\ Upto(n, length) <= length
<1>1. CASE n < 0
  <2> DEFINE m == length + n
             S == {0, m}
  <2>1. m \in Int /\ m <= length
    BY <1>1
  <2> HIDE DEF m
  <2>2. \E x \in S : \A y \in S : x >= y
    BY <2>1
  <2>3. Max(S) \in S /\ \A y \in S : Max(S) >= y
    BY <2>2 DEF Max
  <2>4. Upto(n, length) = Max(S)
    BY <1>1 DEF Upto, m
  <2> QED
    BY <2>1, <2>3, <2>4
<1>2. CASE ~(n < 0)
  <2> DEFINE S == {n, length}
  <2>1. \E x \in S : \A y \in S : x <= y
    BY <1>2
  <2>2. Min(S) \in S /\ \A y \in S : Min(S) <= y
    BY <2>1 DEF Min
  <2>3. Upto(n, length) = Min(S)
    BY <1>2 DEF Upto
  <2> QED
    BY <1>2, <2>2, <2>3
<1> QED
  BY <1>1, <1>2

LEMMA InsertedAtOK ==
  ASSUME NEW t \in Text, NEW n \in Int, NEW new \in Seq(Text)
  PROVE  InsertedAt(t, n, new) \in Text
<1> DEFINE lines == Lines(t)
           cut == Upto(n, Len(lines))
<1>1. lines \in Seq(Text) /\ Len(lines) \in Nat
  BY LinesAreTexts, LenProperties
<1>2. cut \in Nat /\ cut <= Len(lines)
  <2> HIDE DEF lines
  <2> QED
    BY <1>1, UptoOK
<1>3. InsertedAt(t, n, new) = Join(SubSeq(lines, 1, cut) \o new \o SubSeq(lines, cut + 1, Len(lines)))
  BY Zenon DEF InsertedAt
<1> HIDE DEF lines, cut
<1>4. cut \in Int /\ cut + 1 \in Int /\ cut + 1 >= 1
  BY <1>2
<1> QED
  BY <1>1, <1>2, <1>3, <1>4, JoinAround

LEMMA InsertedAfterOK ==
  ASSUME NEW t \in Text, NEW find \in NumberedLines, NEW new \in NumberedLines
  PROVE  InsertedAfter(t, find, new) \in Text \cup {None}
<1> DEFINE chunk == MatchedChunk(find, Lines(t))
<1>1. CASE chunk = None
  BY <1>1 DEF InsertedAfter
<1>2. CASE chunk # None
  <2>1. chunk[2] \in Int
    BY <1>2, MatchedChunkOK
  <2>2. InsertedAfter(t, find, new) = InsertedAt(t, chunk[2], Unnumbered(new))
    BY <1>2 DEF InsertedAfter
  <2>3. Unnumbered(new) \in Seq(Text)
    BY UnnumberedOK
  <2> HIDE DEF chunk
  <2> QED
    BY <2>1, <2>2, <2>3, InsertedAtOK
<1> QED
  BY <1>1, <1>2

-----------------------------------------------------------------------------
\* What is on disk and in a backup is a text, if it is there: every command makes a
\* text of one, and an undo puts one back.
TextsInv ==
  /\ \A p \in Paths : disk[p] \in Text \cup {None}
  /\ \A b \in BackupFiles : backups[b] \in Text \cup {None}

LEMMA PathOf ==
  ASSUME NEW c \in FileCommands
  PROVE  c.path \in Paths
BY FilesAssumption, Zenon

LEMMA EditedOK ==
  ASSUME NEW c \in FileCommands, c.command \notin {"view", "undo", "delete"},
         disk[c.path] \in Text \cup {None}
  PROVE  Edited(c) \in Text \cup {None}
<1> DEFINE t == IF disk[c.path] = None THEN None ELSE AsRead(disk[c.path])
<1>0. t \in Text \cup {None}
  BY AsReadOK
<1>1. CASE c.command \in {"create", "createTag"}
  <2>1. Created(c) \in Text \cup {None}
    <3>1. CASE c.command = "create"
      BY <3>1, CommandsAssumption DEF Created, Text
    <3>2. CASE c.command = "createTag"
      <4>1. Join(Unnumbered(c.numbered)) \in Text
        BY <3>2, CommandsAssumption, UnnumberedOK, JoinOK
      <4> QED
        BY <3>2, <4>1 DEF Created
    <3> QED
      BY <1>1, <3>1, <3>2
  <2>2. Edited(c) = IF t = None THEN Created(c) ELSE None
    BY <1>1 DEF Edited
  <2> QED
    BY <2>1, <2>2
<1>2. CASE t = None /\ c.command \notin {"create", "createTag"}
  BY <1>2 DEF Edited
<1>3. CASE t # None /\ c.command = "str_replace"
  <2>1. Edited(c) = StrReplaced(t, c.old, c.new)
    BY <1>3 DEF Edited
  <2>2. t \in Text /\ c.old \in Text /\ c.new \in Text
    BY <1>0, <1>3, CommandsAssumption DEF Text
  <2> HIDE DEF t
  <2> QED
    BY <2>1, <2>2, StrReplacedOK
<1>4. CASE t # None /\ c.command = "replaceTag"
  <2>1. Edited(c) = NumberedReplaced(t, c.find, c.numbered)
    BY <1>4 DEF Edited
  <2>2. t \in Text /\ c.find \in NumberedLines /\ c.numbered \in NumberedLines
    BY <1>0, <1>4, CommandsAssumption
  <2> HIDE DEF t
  <2> QED
    BY <2>1, <2>2, NumberedReplacedOK
<1>5. CASE t # None /\ c.command = "insert"
  <2>1. Edited(c) = InsertedAt(t, c.line, Lines(c.new))
    BY <1>5 DEF Edited
  <2>2. t \in Text /\ c.line \in Int /\ c.new \in Text
    BY <1>0, <1>5, CommandsAssumption DEF Text
  <2>3. Lines(c.new) \in Seq(Text)
    BY <2>2, LinesAreTexts
  <2> HIDE DEF t
  <2> QED
    BY <2>1, <2>2, <2>3, InsertedAtOK
<1>6. CASE t # None /\ c.command = "insertTag"
  <2>1. Edited(c) = InsertedAfter(t, c.find, c.numbered)
    BY <1>6 DEF Edited
  <2>2. t \in Text /\ c.find \in NumberedLines /\ c.numbered \in NumberedLines
    BY <1>0, <1>6, CommandsAssumption
  <2> HIDE DEF t
  <2> QED
    BY <2>1, <2>2, InsertedAfterOK
<1>7. c.command \in {"create", "createTag", "str_replace", "replaceTag", "insert", "insertTag"}
  BY CommandsAssumption
<1> QED
  BY <1>1, <1>2, <1>3, <1>4, <1>5, <1>6, <1>7

LEMMA ChangedOK ==
  ASSUME FileTypeOK, TextsInv, NEW c \in FileCommands, NEW text \in Text \cup {None},
         Changed(c, text)
  PROVE  \A p \in Paths : disk'[p] \in Text \cup {None}
<1>1. PICK callback \in CallbackOutcomes : disk' = [disk EXCEPT ![c.path] = Formatted(text, callback)]
  BY DEF Changed
<1>2. Formatted(text, callback) \in Text \cup {None}
  BY RemoveEmptyLinesOK DEF Formatted
<1>3. DOMAIN disk = Paths
  BY DEF FileTypeOK
<1> QED
  BY <1>1, <1>2, <1>3 DEF TextsInv

LEMMA TextsInvStep ==
  FileTypeOK /\ TextsInv /\ [FileNext]_fileVars => TextsInv'
<1> SUFFICES ASSUME FileTypeOK, TextsInv, [FileNext]_fileVars
             PROVE  TextsInv'
  OBVIOUS
<1>1. ASSUME UNCHANGED <<disk, backups>>
      PROVE  TextsInv'
  BY <1>1 DEF TextsInv
<1>2. ASSUME NEW c \in FileCommands, Edit(c) \/ Delete(c)
      PROVE  TextsInv'
  <2>1. c.path \in Paths
    BY PathOf
  <2>2. \A b \in BackupFiles : backups'[b] \in Text \cup {None}
    <3>1. backups' = backups \/ backups' = [backups EXCEPT ![BackupOf(c.path)] = disk[c.path]]
      BY <1>2 DEF Edit, Delete, SaveState
    <3>2. DOMAIN backups = BackupFiles /\ disk[c.path] \in Text \cup {None}
      BY <2>1 DEF FileTypeOK, TextsInv
    <3> QED
      BY <3>1, <3>2 DEF TextsInv
  <2>3. \A p \in Paths : disk'[p] \in Text \cup {None}
    <3>1. CASE disk' = disk
      BY <3>1 DEF TextsInv
    <3>2. CASE Edit(c) /\ disk' # disk
      <4>1. c.command \notin {"view", "undo", "delete"} /\ Changed(c, Edited(c))
        BY <3>2, Zenon DEF Edit
      <4>2. Edited(c) \in Text \cup {None}
        BY <2>1, <4>1, EditedOK DEF TextsInv
      <4> QED
        BY <4>1, <4>2, ChangedOK
    <3>3. CASE Delete(c) /\ disk' # disk
      <4>1. Changed(c, None)
        BY <3>3, Zenon DEF Delete
      <4> QED
        BY <4>1, ChangedOK
    <3> QED
      BY <1>2, <3>1, <3>2, <3>3
  <2> QED
    BY <2>2, <2>3 DEF TextsInv
<1>3. ASSUME NEW c \in FileCommands, Undo(c)
      PROVE  TextsInv'
  <2> DEFINE last == Last(history[c.path])
  <2>1. CASE UNCHANGED <<disk, backups>>
    BY <1>1, <2>1
  <2>2. CASE ~UNCHANGED <<disk, backups>>
    <3>1. /\ history[c.path] # <<>> /\ last # Dot
          /\ backups' = [backups EXCEPT ![last] = None] /\ Changed(c, backups[last])
      BY <1>3, <2>2 DEF Undo
    <3>2. last \in BackupFiles
      <4>1. history[c.path] \in Seq(BackupFiles \cup {Dot})
        BY PathOf DEF FileTypeOK
      <4>2. last \in BackupFiles \cup {Dot}
        BY <3>1, <4>1, EmptySeq, LenProperties, ElementOfSeq DEF Last
      <4> QED
        BY <3>1, <4>2
    <3>3. backups[last] \in Text \cup {None} /\ DOMAIN backups = BackupFiles
      BY <3>2 DEF TextsInv, FileTypeOK
    <3>4. \A p \in Paths : disk'[p] \in Text \cup {None}
      BY <3>1, <3>3, ChangedOK
    <3> QED
      BY <3>1, <3>3, <3>4 DEF TextsInv
  <2> QED
    BY <2>1, <2>2
<1>4. ASSUME NEW c \in FileCommands, Denied(c) \/ View(c)
      PROVE  UNCHANGED <<disk, backups>>
  BY <1>4 DEF Denied, View
<1> QED
  BY <1>1, <1>2, <1>3, <1>4 DEF FileNext, fileVars

LEMMA ToolsTexts == ToolsSpec => [](FileInv /\ TextsInv)
<1>1. ToolsInit => TextsInv
  BY CommandsAssumption DEF ToolsInit, FileInit, TextsInv, Text
<1>2. FileInv /\ TextsInv /\ [ToolsNext]_<<fileVars, memVars, commandVars, tool>> => TextsInv'
  <2> SUFFICES ASSUME FileInv, TextsInv, [ToolsNext]_<<fileVars, memVars, commandVars, tool>>
               PROVE  TextsInv'
    OBVIOUS
  <2>1. [FileNext]_fileVars
    BY DEF ToolsNext
  <2> QED
    BY <2>1, TextsInvStep DEF FileInv
<1> QED
  BY <1>1, <1>2, ToolsFileInv, PTL DEF ToolsSpec

\* For all texts: a replacement changes what it was asked to find and nothing else of
\* what is read of the file, but for the blanks of blank lines; and where whole lines
\* are replaced, the lines before and after them are the very lines that were read.
THEOREM ReplaceTheorem == ToolsSpec => ReplaceKeepsRest
<1> DEFINE cmd == result'.of
           Kept == (cmd.command = "str_replace" /\ result'.ok /\ result'.callback = "none") =>
                     RestKept(AsRead(disk[cmd.path]), cmd.old, cmd.new, disk'[cmd.path])
<1>1. ASSUME FileInv, TextsInv, [FileNext]_fileVars
      PROVE  [Kept]_fileVars
  <2> SUFFICES ASSUME FileNext, cmd.command = "str_replace", result'.ok, result'.callback = "none"
               PROVE  RestKept(AsRead(disk[cmd.path]), cmd.old, cmd.new, disk'[cmd.path])
    BY <1>1 DEF fileVars
  <2>1. PICK c \in FileCommands : Denied(c) \/ Edit(c) \/ Delete(c) \/ View(c) \/ Undo(c)
    BY DEF FileNext
  <2>2. PICK ok, callback, hint : Respond(c, ok, callback, hint)
    BY <2>1, Zenon DEF Denied, Edit, Delete, View, Undo, Changed
  <2>3. cmd = c
    BY <2>2 DEF Respond
  <2> HIDE DEF cmd
  <2>4. Edit(c) /\ c.path \in Paths
    <3>1. ~Denied(c)
      BY DEF Denied, Respond
    <3> QED
      BY <2>1, <2>3, <3>1, PathOf DEF Delete, View, Undo
  <2> DEFINE text == Edited(c)
  <2>5. text # None
    BY <2>4 DEF Edit, Respond
  <2>6. PICK outcome \in CallbackOutcomes :
          /\ disk' = [disk EXCEPT ![c.path] = Formatted(text, outcome)]
          /\ Respond(c, outcome # "raise", outcome, IF outcome = "raise" THEN "failed" ELSE None)
    BY <2>4, <2>5, Zenon DEF Edit, Changed
  <2>7. outcome = "none"
    BY <2>6 DEF Respond
  <2>8. disk'[c.path] = text
    BY <1>1, <2>4, <2>6, <2>7 DEF Formatted, FileInv, FileTypeOK
  <2>9. disk[c.path] \in Text \cup {None}
    BY <1>1, <2>4 DEF TextsInv
  <2> DEFINE old == AsRead(disk[c.path])
  <2>10. old \in Text /\ text = StrReplaced(old, c.old, c.new)
    <3>1. disk[c.path] # None /\ text = StrReplaced(old, c.old, c.new)
      BY <2>3, <2>5 DEF Edited
    <3> QED
      BY <2>9, <3>1, AsReadOK
  <2>11. c.old \in Text /\ c.new \in Text
    BY <2>3, CommandsAssumption DEF Text
  <2> HIDE DEF text, old
  <2>12. RestKept(old, c.old, c.new, text)
    BY <2>5, <2>10, <2>11, StrReplacedOK
  <2> QED
    BY <2>3, <2>8, <2>12 DEF old
<1>2. [ToolsNext]_<<fileVars, memVars, commandVars, tool>> => [FileNext]_fileVars
  BY DEF ToolsNext
<1>3. FileInv /\ TextsInv /\ [ToolsNext]_<<fileVars, memVars, commandVars, tool>> => [Kept]_fileVars
  BY <1>1, <1>2
<1> QED
  BY <1>3, ToolsTexts, PTL DEF ToolsSpec, ReplaceKeepsRest, RestKept

-----------------------------------------------------------------------------
\* The memory.

Held(files) == UNION {Parents(f) : f \in {g \in MemFiles : files[g] # None}}

LEMMA ParentsTransitive ==
  ASSUME NEW d, NEW e, NEW f \in MemFiles, d \in Parents(e), e \in Parents(f)
  PROVE  d \in Parents(f)
<1>1. f \in Seq(Nat) /\ Len(f) \in Nat
  BY MemoryAssumption, LenProperties
<1>2. PICK m \in 1..(Len(f) - 1) : e = SubSeq(f, 1, m)
  BY DEF Parents
<1>3. PICK n \in 1..(Len(e) - 1) : d = SubSeq(e, 1, n)
  BY DEF Parents
<1>4. m \in 1..Len(f) /\ m \in Int /\ \A i \in 1..m : f[i] \in Nat
  BY <1>1, ElementOfSeq
<1>5. Len(e) = m
  <2>1. Len(SubSeq(f, 1, m)) = IF 1 <= m THEN m - 1 + 1 ELSE 0
    BY <1>4, SubSeqProperties
  <2> QED
    BY <1>2, <2>1
<1>6. n \in 1..(m - 1 + 1) /\ n \in 1..(Len(f) - 1) /\ 1 \in 1..Len(f) /\ 1 \in 1..(m - 1 + 1)
  BY <1>1, <1>3, <1>4, <1>5
<1>7. SubSeq(SubSeq(f, 1, m), 1, n) = SubSeq(f, 1 + 1 - 1, 1 + n - 1)
  BY <1>1, <1>4, <1>6, SubSeqOfSubSeq
<1>8. d = SubSeq(f, 1, n)
  BY <1>2, <1>3, <1>6, <1>7
<1> QED
  BY <1>6, <1>8 DEF Parents

\* What is removed of the directories when a file is removed is what it leaves empty.
LEMMA EmptyParentsRemoved ==
  ASSUME NEW files, DOMAIN files = MemFiles, NEW p \in MemFiles
  PROVE  LET gone == [files EXCEPT ![p] = None]
         IN  Held(files) \ EmptyParents(Held(files), gone, p) = Held(gone)
<1> DEFINE gone == [files EXCEPT ![p] = None]
           Empty == EmptyParents(Held(files), gone, p)
<1>1. gone[p] = None /\ \A f \in MemFiles : f # p => gone[f] = files[f]
  OBVIOUS
<1>2. \A h : \A d : d \in Held(h) <=> \E f \in MemFiles : h[f] # None /\ d \in Parents(f)
  BY DEF Held
<1>3. \A d : d \in Empty <=> /\ d \in Parents(p)
                             /\ \A f \in MemFiles : d \in Parents(f) => gone[f] = None
                             /\ \A e \in Held(files) : d \in Parents(e) => e \in Parents(p)
  BY DEF EmptyParents, Within
<1> HIDE DEF gone, Empty
<1>4. ASSUME NEW d \in Held(files), d \notin Empty
      PROVE  d \in Held(gone)
  <2>1. PICK f \in MemFiles : files[f] # None /\ d \in Parents(f)
    BY <1>2
  <2>2. CASE f # p
    BY <2>1, <2>2, <1>1, <1>2
  <2>3. CASE f = p
    <3>1. CASE \E g \in MemFiles : d \in Parents(g) /\ gone[g] # None
      BY <3>1, <1>2
    <3>2. CASE \E e \in Held(files) : d \in Parents(e) /\ e \notin Parents(p)
      <4>1. PICK e \in Held(files) : d \in Parents(e) /\ e \notin Parents(p)
        BY <3>2
      <4>2. PICK g \in MemFiles : files[g] # None /\ e \in Parents(g)
        BY <1>2
      <4>3. g # p /\ d \in Parents(g)
        BY <4>1, <4>2, ParentsTransitive
      <4> QED
        BY <4>2, <4>3, <1>1, <1>2
    <3> QED
      BY <2>1, <2>3, <3>1, <3>2, <1>3, <1>4
  <2> QED
    BY <2>2, <2>3
<1>5. ASSUME NEW d \in Held(gone)
      PROVE  d \in Held(files) /\ d \notin Empty
  BY <1>1, <1>2, <1>3
<1>6. Held(files) \ Empty = Held(gone)
  BY <1>4, <1>5
<1> QED
  BY <1>6 DEF gone, Empty

\* The recursive function of delete_memory is what its equations say.
LEMMA DeletedUptoDef ==
  ASSUME NEW files, NEW dirs, NEW paths, Len(paths) \in Nat
  PROVE  LET upto == DeletedUpto(files, dirs, paths)
         IN  /\ upto[0] = [files |-> files, dirs |-> dirs, deleted |-> {}, raised |-> FALSE]
             /\ \A k \in 1..Len(paths) : upto[k] = DeleteOne(upto[k - 1], paths[k])
<1> DEFINE first == [files |-> files, dirs |-> dirs, deleted |-> {}, raised |-> FALSE]
           Is(f, n) == f = [k \in 0..n |-> IF k = 0 THEN first ELSE DeleteOne(f[k - 1], paths[k])]
           P == [n \in Nat |-> \E f : Is(f, n)]
<1> HIDE DEF first
<1>1. P[0]
  <2>1. Is([k \in 0..0 |-> first], 0)
    OBVIOUS
  <2> QED
    BY <2>1
<1>2. ASSUME NEW n \in Nat, P[n]
      PROVE  P[n + 1]
  <2>1. PICK f : Is(f, n)
    BY <1>2
  <2> DEFINE g == [k \in 0..(n + 1) |-> IF k = n + 1 THEN DeleteOne(f[n], paths[n + 1]) ELSE f[k]]
  <2>2. \A k \in 0..n : g[k] = f[k]
    OBVIOUS
  <2>3. \A k \in 0..(n + 1) : g[k] = IF k = 0 THEN first ELSE DeleteOne(g[k - 1], paths[k])
    <3> SUFFICES ASSUME NEW k \in 0..(n + 1)
                 PROVE  g[k] = IF k = 0 THEN first ELSE DeleteOne(g[k - 1], paths[k])
      OBVIOUS
    <3>1. CASE k = n + 1
      <4>1. k # 0 /\ k - 1 = n /\ n \in 0..n
        BY <3>1
      <4> QED
        BY <3>1, <4>1, <2>2
    <3>2. CASE k \in 1..n
      <4>1. k # 0 /\ k - 1 \in 0..n /\ k \in 0..n
        BY <3>2
      <4>2. f[k] = DeleteOne(f[k - 1], paths[k])
        BY <4>1, <2>1
      <4> QED
        BY <4>1, <4>2, <2>2
    <3>3. CASE k = 0
      BY <3>3, <2>1, <2>2
    <3> QED
      BY <3>1, <3>2, <3>3
  <2>4. Is(g, n + 1)
    BY <2>3
  <2> HIDE DEF g, Is
  <2> QED
    BY <2>4
<1>3. \A n \in Nat : P[n]
  <2> HIDE DEF Is
  <2>1. P \in [Nat -> BOOLEAN]
    OBVIOUS
  <2> HIDE DEF P
  <2> QED
    BY <1>1, <1>2, <2>1, Induction
<1>4. Is(DeletedUpto(files, dirs, paths), Len(paths))
  <2>1. \E f : Is(f, Len(paths))
    BY <1>3
  <2> QED
    BY <2>1 DEF DeletedUpto, first
<1> QED
  <2> DEFINE upto == DeletedUpto(files, dirs, paths)
  <2>1. Is(upto, Len(paths))
    BY <1>4
  <2> HIDE DEF upto
  <2>2. upto[0] = first
    BY <2>1
  <2>3. \A k \in 1..Len(paths) : upto[k] = DeleteOne(upto[k - 1], paths[k])
    BY <2>1
  <2> QED
    BY <2>2, <2>3 DEF upto, first

\* What holds after every path: the directories are those of the files that are left,
\* and these are as they were.
DeletedOK(files, done) ==
  /\ done = [files |-> done.files, dirs |-> done.dirs, deleted |-> done.deleted,
             raised |-> done.raised]
  /\ DOMAIN done.files = MemFiles /\ done.dirs = Held(done.files)
  /\ \A f \in MemFiles : done.files[f] \in {files[f], None}

LEMMA DeleteOneOK ==
  ASSUME NEW files, NEW done, DeletedOK(files, done), NEW p
  PROVE  DeletedOK(files, DeleteOne(done, p))
<1> DEFINE left == [done.files EXCEPT ![p] = None]
<1>1. CASE DeleteOne(done, p) = done
  BY <1>1
<1>2. CASE DeleteOne(done, p) = [done EXCEPT !.raised = TRUE]
  <2> DEFINE d == [done EXCEPT !.raised = TRUE]
  <2>1. \A b : [done EXCEPT !.raised = b] = [files |-> done.files, dirs |-> done.dirs,
                                            deleted |-> done.deleted, raised |-> b]
    BY DEF DeletedOK
  <2> QED
    BY <1>2, <2>1 DEF DeletedOK
<1>3. ASSUME p \in MemFiles, done.files[p] # None,
             DeleteOne(done, p) = [done EXCEPT !.files = left,
                                               !.dirs = @ \ EmptyParents(done.dirs, left, p),
                                               !.deleted = @ \cup {p}]
      PROVE  DeletedOK(files, DeleteOne(done, p))
  <2>1. DeleteOne(done, p) = [files |-> left, dirs |-> done.dirs \ EmptyParents(done.dirs, left, p),
                              deleted |-> done.deleted \cup {p}, raised |-> done.raised]
    BY <1>3 DEF DeletedOK
  <2>2. done.dirs \ EmptyParents(done.dirs, left, p) = Held(left)
    BY <1>3, EmptyParentsRemoved DEF DeletedOK
  <2>3. DOMAIN left = MemFiles /\ \A f \in MemFiles : left[f] \in {files[f], None}
    BY DEF DeletedOK
  <2> HIDE DEF left
  <2> QED
    BY <2>1, <2>2, <2>3 DEF DeletedOK
<1> QED
  BY <1>1, <1>2, <1>3 DEF DeleteOne

LEMMA DeletedUptoOK ==
  ASSUME NEW files, DOMAIN files = MemFiles, NEW paths, Len(paths) \in Nat
  PROVE  DeletedOK(files, DeletedUpto(files, Held(files), paths)[Len(paths)])
<1> DEFINE upto == DeletedUpto(files, Held(files), paths)
           OK(n) == n <= Len(paths) => DeletedOK(files, upto[n])
           P == [n \in Nat |-> OK(n)]
<1>1. /\ upto[0] = [files |-> files, dirs |-> Held(files), deleted |-> {}, raised |-> FALSE]
      /\ \A k \in 1..Len(paths) : upto[k] = DeleteOne(upto[k - 1], paths[k])
  BY DeletedUptoDef
<1> HIDE DEF upto
<1>2. OK(0)
  <2> DEFINE d == upto[0]
  <2>1. /\ d.files = files /\ d.dirs = Held(files) /\ d.deleted = {} /\ d.raised = FALSE
        /\ d = [files |-> d.files, dirs |-> d.dirs, deleted |-> d.deleted, raised |-> d.raised]
    BY <1>1
  <2> HIDE DEF d
  <2>2. DeletedOK(files, d)
    BY <2>1 DEF DeletedOK
  <2> QED
    BY <2>2 DEF d
<1>3. ASSUME NEW n \in Nat, OK(n)
      PROVE  OK(n + 1)
  <2> SUFFICES ASSUME n + 1 <= Len(paths)
               PROVE  DeletedOK(files, upto[n + 1])
    OBVIOUS
  <2>1. n + 1 \in 1..Len(paths) /\ n + 1 - 1 = n
    OBVIOUS
  <2>2. upto[n + 1] = DeleteOne(upto[n], paths[n + 1])
    BY <1>1, <2>1
  <2>3. DeletedOK(files, upto[n])
    BY <1>3
  <2> QED
    BY <2>2, <2>3, DeleteOneOK
<1>4. \A n \in Nat : OK(n)
  <2>1. P \in [Nat -> BOOLEAN]
    OBVIOUS
  <2> HIDE DEF OK
  <2>2. P[0] /\ \A n \in Nat : P[n] => P[n + 1]
    BY <1>2, <1>3
  <2>3. \A n \in Nat : P[n]
    <3> HIDE DEF P
    <3> QED
      BY <2>1, <2>2, Induction
  <2> QED
    BY <2>3
<1> QED
  BY <1>4 DEF upto

\* The recursive function of import_memory is what its equations say.
LEMMA ImportedUptoDef ==
  ASSUME NEW s, NEW from, Len(from) \in Nat
  PROVE  LET upto == ImportedUpto(s, from)
         IN  /\ upto[0] = [files |-> memory[s], dirs |-> folders[s], wrote |-> wrote[s], raised |-> FALSE]
             /\ \A k \in 1..Len(from) : upto[k] = ImportOne(s, upto[k - 1], from[k])
<1> DEFINE first == [files |-> memory[s], dirs |-> folders[s], wrote |-> wrote[s], raised |-> FALSE]
           Is(f, n) == f = [k \in 0..n |-> IF k = 0 THEN first ELSE ImportOne(s, f[k - 1], from[k])]
           P == [n \in Nat |-> \E f : Is(f, n)]
<1> HIDE DEF first
<1>1. P[0]
  <2>1. Is([k \in 0..0 |-> first], 0)
    OBVIOUS
  <2> QED
    BY <2>1
<1>2. ASSUME NEW n \in Nat, P[n]
      PROVE  P[n + 1]
  <2>1. PICK f : Is(f, n)
    BY <1>2
  <2> DEFINE g == [k \in 0..(n + 1) |-> IF k = n + 1 THEN ImportOne(s, f[n], from[n + 1]) ELSE f[k]]
  <2>2. \A k \in 0..n : g[k] = f[k]
    OBVIOUS
  <2>3. \A k \in 0..(n + 1) : g[k] = IF k = 0 THEN first ELSE ImportOne(s, g[k - 1], from[k])
    <3> SUFFICES ASSUME NEW k \in 0..(n + 1)
                 PROVE  g[k] = IF k = 0 THEN first ELSE ImportOne(s, g[k - 1], from[k])
      OBVIOUS
    <3>1. CASE k = n + 1
      <4>1. k # 0 /\ k - 1 = n /\ n \in 0..n
        BY <3>1
      <4> QED
        BY <3>1, <4>1, <2>2
    <3>2. CASE k \in 1..n
      <4>1. k # 0 /\ k - 1 \in 0..n /\ k \in 0..n
        BY <3>2
      <4>2. f[k] = ImportOne(s, f[k - 1], from[k])
        BY <4>1, <2>1
      <4> QED
        BY <4>1, <4>2, <2>2
    <3>3. CASE k = 0
      BY <3>3, <2>1, <2>2
    <3> QED
      BY <3>1, <3>2, <3>3
  <2>4. Is(g, n + 1)
    BY <2>3
  <2> HIDE DEF g, Is
  <2> QED
    BY <2>4
<1>3. \A n \in Nat : P[n]
  <2> HIDE DEF Is
  <2>1. P \in [Nat -> BOOLEAN]
    OBVIOUS
  <2> HIDE DEF P
  <2> QED
    BY <1>1, <1>2, <2>1, Induction
<1>4. Is(ImportedUpto(s, from), Len(from))
  <2>1. \E f : Is(f, Len(from))
    BY <1>3
  <2> QED
    BY <2>1 DEF ImportedUpto, first
<1> QED
  <2> DEFINE upto == ImportedUpto(s, from)
  <2>1. Is(upto, Len(from))
    BY <1>4
  <2> HIDE DEF upto
  <2>2. upto[0] = first
    BY <2>1
  <2>3. \A k \in 1..Len(from) : upto[k] = ImportOne(s, upto[k - 1], from[k])
    BY <2>1
  <2> QED
    BY <2>2, <2>3 DEF upto, first

\* What was written is read again, or is misread.
ReadAgain(text, written) ==
  \/ written = None
  \/ Misread(written)
  \/ /\ text # None
     /\ Frontmatter(AsRead(text))
          = [tags |-> written.tags, content |-> AsRead(written.content)]

SessionMemoryOK(files, dirs, written) ==
  /\ DOMAIN files = MemFiles /\ DOMAIN written = MemFiles /\ dirs = Held(files)
  /\ \A f \in MemFiles : ReadAgain(files[f], written[f])

MemInv ==
  /\ DOMAIN memory = MemSessions /\ DOMAIN folders = MemSessions /\ DOMAIN wrote = MemSessions
  /\ \A s \in MemSessions : SessionMemoryOK(memory[s], folders[s], wrote[s])

ImportedOK(done) ==
  /\ done = [files |-> done.files, dirs |-> done.dirs, wrote |-> done.wrote,
             raised |-> done.raised]
  /\ SessionMemoryOK(done.files, done.dirs, done.wrote)

LEMMA ImportOneOK ==
  ASSUME MemInv, NEW s, NEW done, ImportedOK(done), NEW from \in MemSessions
  PROVE  ImportedOK(ImportOne(s, done, from))
<1> DEFINE files == [f \in MemFiles |-> IF memory[from][f] # None THEN memory[from][f]
                                                                  ELSE done.files[f]]
           written == [f \in MemFiles |-> IF memory[from][f] # None THEN wrote[from][f]
                                                                    ELSE done.wrote[f]]
<1>1. CASE ImportOne(s, done, from) = done
  BY <1>1
<1>2. ASSUME NEW b, ImportOne(s, done, from) = [done EXCEPT !.raised = b]
      PROVE  ImportedOK(ImportOne(s, done, from))
  <2>1. [done EXCEPT !.raised = b] = [files |-> done.files, dirs |-> done.dirs,
                                      wrote |-> done.wrote, raised |-> b]
    BY DEF ImportedOK
  <2> QED
    BY <1>2, <2>1 DEF ImportedOK
<1>3. ASSUME ImportOne(s, done, from) = [done EXCEPT !.dirs = @ \cup folders[from],
                                                     !.files = files, !.wrote = written]
      PROVE  ImportedOK(ImportOne(s, done, from))
  <2>1. ImportOne(s, done, from) = [files |-> files, dirs |-> done.dirs \cup folders[from],
                                    wrote |-> written, raised |-> done.raised]
    BY <1>3 DEF ImportedOK
  <2>2. SessionMemoryOK(memory[from], folders[from], wrote[from])
    BY DEF MemInv
  <2>3. done.dirs \cup folders[from] = Held(files)
    BY <2>2 DEF ImportedOK, SessionMemoryOK, Held
  <2>4. \A f \in MemFiles : ReadAgain(files[f], written[f])
    BY <2>2 DEF ImportedOK, SessionMemoryOK
  <2>5. DOMAIN files = MemFiles /\ DOMAIN written = MemFiles
    OBVIOUS
  <2> HIDE DEF files, written
  <2> QED
    BY <2>1, <2>3, <2>4, <2>5 DEF ImportedOK, SessionMemoryOK
<1> QED
  BY <1>1, <1>2, <1>3 DEF ImportOne

LEMMA ImportedUptoOK ==
  ASSUME MemInv, NEW s \in MemSessions, NEW from \in Seq(MemSessions)
  PROVE  ImportedOK(ImportedUpto(s, from)[Len(from)])
<1> DEFINE upto == ImportedUpto(s, from)
           OK(n) == n <= Len(from) => ImportedOK(upto[n])
           P == [n \in Nat |-> OK(n)]
<1>0. Len(from) \in Nat /\ \A k \in 1..Len(from) : from[k] \in MemSessions
  BY LenProperties, ElementOfSeq
<1>1. /\ upto[0] = [files |-> memory[s], dirs |-> folders[s], wrote |-> wrote[s], raised |-> FALSE]
      /\ \A k \in 1..Len(from) : upto[k] = ImportOne(s, upto[k - 1], from[k])
  BY <1>0, ImportedUptoDef
<1> HIDE DEF upto
<1>2. OK(0)
  <2> DEFINE d == upto[0]
  <2>1. /\ d.files = memory[s] /\ d.dirs = folders[s] /\ d.wrote = wrote[s] /\ d.raised = FALSE
        /\ d = [files |-> d.files, dirs |-> d.dirs, wrote |-> d.wrote, raised |-> d.raised]
    BY <1>1
  <2> HIDE DEF d
  <2>2. ImportedOK(d)
    BY <2>1 DEF ImportedOK, MemInv
  <2> QED
    BY <2>2 DEF d
<1>3. ASSUME NEW n \in Nat, OK(n)
      PROVE  OK(n + 1)
  <2> SUFFICES ASSUME n + 1 <= Len(from)
               PROVE  ImportedOK(upto[n + 1])
    OBVIOUS
  <2>1. n + 1 \in 1..Len(from) /\ n + 1 - 1 = n
    BY <1>0
  <2>2. upto[n + 1] = ImportOne(s, upto[n], from[n + 1]) /\ from[n + 1] \in MemSessions
    BY <1>0, <1>1, <2>1
  <2>3. ImportedOK(upto[n])
    BY <1>0, <1>3
  <2> QED
    BY <2>2, <2>3, ImportOneOK
<1>4. \A n \in Nat : OK(n)
  <2>1. P \in [Nat -> BOOLEAN]
    OBVIOUS
  <2> HIDE DEF OK
  <2>2. P[0] /\ \A n \in Nat : P[n] => P[n + 1]
    BY <1>2, <1>3
  <2>3. \A n \in Nat : P[n]
    <3> HIDE DEF P
    <3> QED
      BY <2>1, <2>2, Induction
  <2> QED
    BY <2>3
<1> QED
  BY <1>0, <1>4 DEF upto

-----------------------------------------------------------------------------
\* A header without a rule in it is read as the tags it was made of, and what is after
\* it as the content.

CleanTags == {t \in Tags : Last(t) # "-"}

\* A text in which no dash ends a line.
Clear(h) ==
  /\ h \in Plain
  /\ \A j \in 1..Len(h) : h[j] = "-" => j + 1 \in 1..Len(h) /\ h[j + 1] # NL

LEMMA DifferentCharacters ==
  /\ NL # CR /\ NL # "-" /\ CR # "-"
  /\ NL \in Characters \ {CR} /\ "-" \in Characters \ {CR}
<1>1. NL # CR /\ NL # "-" /\ CR # "-"
  BY DEF NL, CR
<1> QED
  BY <1>1, TextAssumption, MemoryAssumption

LEMMA RuleOK ==
  /\ Rule \in Plain /\ Len(Rule) = 2 /\ Rule[1] = "-" /\ Rule[2] = NL
<1> DEFINE S == Characters \ {CR}
<1>1. "-" \in S /\ NL \in S
  BY DifferentCharacters
<1> HIDE DEF S
<1>2. <<"-", NL>> \in Seq(S)
  BY <1>1
<1> QED
  BY <1>2 DEF Rule, Plain, S

LEMMA TagOK ==
  ASSUME NEW t \in Tags
  PROVE  /\ t \in Line /\ t \in Plain /\ t \in Text /\ Len(t) \in Nat /\ Len(t) > 0
         /\ IsTag(t)
<1>1. t \in Seq(Characters) /\ t # <<>> /\ ToSet(t) \subseteq TagNames \cup {"-"} /\ IsTag(t)
  BY DEF Tags, IsTag
<1>2. Len(t) \in Nat /\ Len(t) > 0 /\ DOMAIN t = 1..Len(t) /\ t \in [1..Len(t) -> Characters]
  BY <1>1, EmptySeq, LenProperties
<1>3. \A i \in 1..Len(t) : t[i] \in TagNames \cup {"-"}
  BY <1>1, <1>2 DEF ToSet
<1>4. \A c \in TagNames \cup {"-"} : c \in Characters /\ c # NL /\ c # CR
  BY DifferentCharacters, MemoryAssumption
<1>5. t \in [1..Len(t) -> Characters \ {NL}] /\ t \in [1..Len(t) -> Characters \ {CR}]
  BY <1>2, <1>3, <1>4
<1>6. t \in Line /\ t \in Plain
  BY <1>2, <1>5, SeqDef DEF Line, Plain
<1> QED
  BY <1>1, <1>2, <1>6 DEF Text

\* A clean tag and the end of its line.
LEMMA CleanTagOK ==
  ASSUME NEW t \in CleanTags
  PROVE  Clear(Append(t, NL))
<1> DEFINE u == Append(t, NL)
           n == Len(t)
           S == Characters \ {CR}
<1>1. t \in Plain /\ t \in Line /\ n \in Nat /\ n > 0 /\ t[n] # "-"
  BY TagOK DEF CleanTags, Last
<1>2. u \in Plain
  <2>1. t \in Seq(S) /\ NL \in S
    BY <1>1, DifferentCharacters DEF Plain
  <2> HIDE DEF S
  <2>2. Append(t, NL) \in Seq(S)
    BY <2>1, AppendProperties
  <2> QED
    BY <2>2 DEF S, Plain
<1>3. Len(u) = n + 1 /\ (\A i \in 1..n : u[i] = t[i]) /\ u[n + 1] = NL
  BY <1>1, PlainText, PartedOK, AppendProperties DEF Text
<1>4. \A i \in 1..n : t[i] # NL
  <2> DEFINE T == Characters \ {NL}
  <2>1. t \in Seq(T)
    BY <1>1 DEF Line
  <2> HIDE DEF T
  <2>2. \A i \in 1..n : t[i] \in T
    BY <2>1, ElementOfSeq
  <2> QED
    BY <2>2 DEF T
<1> HIDE DEF u, n
<1>5. ASSUME NEW j \in 1..Len(u), u[j] = "-"
      PROVE  j + 1 \in 1..Len(u) /\ u[j + 1] # NL
  <2>1. j # n + 1
    BY <1>3, <1>5, DifferentCharacters
  <2>2. j \in 1..n
    BY <1>1, <1>3, <2>1
  <2>3. j # n
    BY <1>1, <1>3, <1>5, <2>2
  <2>4. j + 1 \in 1..n
    BY <1>1, <2>2, <2>3
  <2>5. u[j + 1] # NL
    BY <1>3, <1>4, <2>4
  <2> QED
    BY <1>1, <1>3, <2>4, <2>5
<1> QED
  BY <1>2, <1>5 DEF Clear, u

LEMMA ClearCat ==
  ASSUME NEW g, Clear(g), NEW h, Clear(h)
  PROVE  Clear(Cat(g, h))
<1> DEFINE S == Characters \ {CR}
           r == Cat(g, h)
           n == Len(g)
           m == Len(h)
<1>1. g \in Seq(S) /\ h \in Seq(S)
  BY DEF Clear, Plain
<1> HIDE DEF S
<1>2. IsCat(S, g, h, r)
  BY <1>1, CatIsCat
<1> HIDE DEF r
<1>3. /\ r \in Seq(S) /\ Len(r) = n + m /\ n \in Nat /\ m \in Nat
      /\ (\A i \in 1..n : r[i] = g[i]) /\ (\A i \in 1..m : r[n + i] = h[i])
  BY <1>2 DEF IsCat
<1>4. /\ \A j \in 1..n : g[j] = "-" => j + 1 \in 1..n /\ g[j + 1] # NL
      /\ \A j \in 1..m : h[j] = "-" => j + 1 \in 1..m /\ h[j + 1] # NL
  BY DEF Clear
<1> HIDE DEF n, m
<1>5. ASSUME NEW j \in 1..Len(r), r[j] = "-"
      PROVE  j + 1 \in 1..Len(r) /\ r[j + 1] # NL
  <2>1. CASE j \in 1..n
    <3>1. j + 1 \in 1..n /\ g[j + 1] # NL
      BY <1>3, <1>4, <1>5, <2>1
    <3>2. r[j + 1] # NL
      BY <1>3, <3>1
    <3> QED
      BY <1>3, <3>1, <3>2
  <2>2. CASE j \notin 1..n
    <3>1. j - n \in 1..m /\ n + (j - n) = j
      BY <1>3, <2>2
    <3>2. h[j - n] = "-"
      BY <1>3, <1>5, <3>1
    <3>3. j - n + 1 \in 1..m /\ h[j - n + 1] # NL
      BY <1>4, <3>1, <3>2
    <3>4. r[n + (j - n + 1)] # NL
      BY <1>3, <3>3
    <3>5. n + (j - n + 1) = j + 1 /\ j + 1 \in 1..Len(r)
      BY <1>3, <3>3
    <3> QED
      BY <3>4, <3>5
  <2> QED
    BY <2>1, <2>2
<1> QED
  BY <1>3, <1>5 DEF Clear, S, Plain, r

\* A header has a line for each of its tags, and ends with the last.
LEMMA HeaderNext ==
  /\ Header(<<>>) = <<>>
  /\ \A ts \in Seq(Text), t \in Text :
       Header(Append(ts, t)) = Cat(Header(ts), Append(t, NL))
<1> DEFINE nil == <<>>
<1>1. nil \in Text /\ nil \in Seq(Text)
  BY EmptySeq DEF Text
<1>2. \A ts \in Seq(Text) :
        Header(ts) = IF ts = <<>> THEN nil ELSE Append(Join(ts), NL)
  <2> SUFFICES ASSUME NEW ts \in Seq(Text)
               PROVE  Header(ts) = IF ts = <<>> THEN nil ELSE Append(Join(ts), NL)
    OBVIOUS
  <2> HIDE DEF nil
  <2>1. Join(Append(ts, nil)) = IF ts = <<>> THEN nil ELSE Parted(Join(ts), nil)
    BY <1>1, JoinAppend
  <2>2. Parted(Join(ts), nil) = Cat(Append(Join(ts), NL), nil) /\ Append(Join(ts), NL) \in Text
    BY <1>1, JoinOK, PartedOK
  <2>3. Cat(Append(Join(ts), NL), nil) = Append(Join(ts), NL)
    BY <2>2, CatEmpty DEF Text, nil
  <2>4. Header(ts) = Join(Append(ts, nil))
    BY DEF Header, nil
  <2> QED
    BY <2>1, <2>2, <2>3, <2>4
<1>3. ASSUME NEW ts \in Seq(Text), NEW t \in Text
      PROVE  Header(Append(ts, t)) = Cat(Header(ts), Append(t, NL))
  <2> DEFINE more == Append(ts, t)
  <2>1. more \in Seq(Text) /\ more # <<>>
    BY AppendProperties
  <2>2. Header(more) = Append(Join(more), NL)
    BY <1>2, <2>1
  <2>3. Join(more) = IF ts = <<>> THEN t ELSE Parted(Join(ts), t)
    BY JoinAppend
  <2> HIDE DEF more
  <2>4. Join(more) = Cat(Header(ts), t) /\ Header(ts) \in Text
    <3>1. CASE ts = <<>>
      <4>1. Header(ts) = nil
        BY <1>2, <3>1
      <4>2. Cat(nil, t) = t
        BY CatEmpty DEF Text
      <4> QED
        BY <1>1, <2>3, <3>1, <4>1, <4>2
    <3>2. CASE ts # <<>>
      <4>1. Header(ts) = Append(Join(ts), NL)
        BY <1>2, <3>2
      <4>2. Parted(Join(ts), t) = Cat(Append(Join(ts), NL), t) /\ Append(Join(ts), NL) \in Text
        BY JoinOK, PartedOK
      <4> QED
        BY <2>3, <3>2, <4>1, <4>2
    <3> QED
      BY <3>1, <3>2
  <2>5. Append(Cat(Header(ts), t), NL) = Cat(Header(ts), Append(t, NL))
    <3>1. Header(ts) \in Seq(Characters) /\ t \in Seq(Characters) /\ NL \in Characters
      BY <2>4, TextAssumption DEF Text
    <3> QED
      BY <3>1, CatAppend
  <2> QED
    BY <2>2, <2>4, <2>5 DEF more
<1>4. Header(<<>>) = <<>>
  BY <1>1, <1>2
<1> QED
  BY <1>3, <1>4

LEMMA TagsAreTexts ==
  ASSUME NEW ts \in Seq(Tags)
  PROVE  ts \in Seq(Text) /\ ts \in Seq(Line)
<1>1. Tags \subseteq Text /\ Tags \subseteq Line
  BY TagOK
<1> QED
  BY <1>1, SeqMonotonic

LEMMA HeaderClear ==
  ASSUME NEW tags \in Seq(CleanTags)
  PROVE  Clear(Header(tags))
<1> DEFINE P == [ts \in Seq(CleanTags) |-> Clear(Header(ts))]
<1>1. P[<<>>]
  <2>1. Clear(<<>>)
    BY EmptySeq DEF Clear, Plain
  <2>2. Header(<<>>) = <<>>
    BY HeaderNext
  <2> QED
    BY <2>1, <2>2, EmptySeq
<1>2. ASSUME NEW ts \in Seq(CleanTags), NEW t \in CleanTags, P[ts]
      PROVE  P[Append(ts, t)]
  <2>1. Append(ts, t) \in Seq(CleanTags)
    BY AppendProperties
  <2>2. ts \in Seq(Text) /\ t \in Text
    <3>1. CleanTags \subseteq Tags /\ t \in Tags
      BY DEF CleanTags
    <3>2. ts \in Seq(Tags)
      BY <3>1, SeqMonotonic
    <3> QED
      BY <3>1, <3>2, TagsAreTexts, TagOK
  <2>3. Header(Append(ts, t)) = Cat(Header(ts), Append(t, NL))
    BY <2>2, HeaderNext
  <2>4. Clear(Header(ts)) /\ Clear(Append(t, NL))
    BY <1>2, CleanTagOK
  <2>5. Clear(Cat(Header(ts), Append(t, NL)))
    BY <2>4, ClearCat
  <2> QED
    BY <2>1, <2>3, <2>5
<1>3. P \in [Seq(CleanTags) -> BOOLEAN]
  BY DEF Clear
<1> HIDE DEF P
<1>4. \A ts \in Seq(CleanTags) : P[ts]
  BY <1>1, <1>2, <1>3, SeqInduction
<1> QED
  BY <1>4 DEF P

LEMMA TagsOfHeader ==
  ASSUME NEW tags \in Seq(Tags), tags # <<>>
  PROVE  TagsIn(Header(tags)) = tags /\ IsTagList(tags)
<1> DEFINE nil == <<>>
           lines == Append(tags, nil)
<1>1. tags \in Seq(Line) /\ nil \in Line
  BY TagsAreTexts, EmptySeq DEF Line
<1>2. Header(tags) = Join(lines)
  BY DEF Header
<1> HIDE DEF nil
<1>3. /\ lines \in Seq(Line) /\ lines # <<>> /\ Len(lines) = Len(tags) + 1
      /\ (\A i \in 1..Len(tags) : lines[i] = tags[i]) /\ lines[Len(tags) + 1] = nil
      /\ Len(tags) \in Nat
  BY <1>1, AppendProperties, LenProperties
<1> HIDE DEF lines
<1>4. Lines(Join(lines)) = lines
  BY <1>3, LinesOfJoin
<1>5. Last(lines) = nil
  BY <1>3 DEF Last
<1>6. Front(lines) = tags
  <2>1. /\ Front(lines) \in Seq(Line) /\ Len(Front(lines)) = Len(lines) - 1
        /\ \A i \in 1..(Len(lines) - 1) : Front(lines)[i] = lines[i]
    BY <1>3, FrontOfSeq
  <2>2. Len(Front(lines)) = Len(tags) /\ \A i \in 1..Len(Front(lines)) : Front(lines)[i] = tags[i]
    BY <1>3, <2>1
  <2> QED
    BY <1>1, <2>1, <2>2, SeqEqual
<1>7. IsTagList(tags)
  <2>1. \A k \in DOMAIN tags : tags[k] \in Tags
    BY LenProperties, ElementOfSeq
  <2> QED
    BY <2>1, TagOK DEF IsTagList
<1> QED
  BY <1>2, <1>4, <1>5, <1>6, <1>7 DEF TagsIn, nil

\* A header between two rules, and a content after it.
Headed(h, content) == Cat(Cat(Cat(Rule, h), Rule), content)

LEMMA Joined ==
  ASSUME NEW s \in Seq(Characters), NEW t \in Seq(Characters)
  PROVE  /\ s \o t \in Seq(Characters) /\ Len(s) \in Nat /\ Len(t) \in Nat
         /\ Len(s \o t) = Len(s) + Len(t)
         /\ \A i \in 1..Len(s) : (s \o t)[i] = s[i]
         /\ \A i \in 1..Len(t) : (s \o t)[Len(s) + i] = t[i]
<1>1. Len(s) \in Nat /\ Len(t) \in Nat
  BY LenProperties
<1>2. /\ s \o t \in Seq(Characters) /\ Len(s \o t) = Len(s) + Len(t)
      /\ \A i \in 1..(Len(s) + Len(t)) : (s \o t)[i] = IF i <= Len(s) THEN s[i] ELSE t[i - Len(s)]
  BY ConcatProperties
<1>3. ASSUME NEW i \in 1..Len(s)
      PROVE  (s \o t)[i] = s[i]
  BY <1>1, <1>2
<1>4. ASSUME NEW i \in 1..Len(t)
      PROVE  (s \o t)[Len(s) + i] = t[i]
  <2>1. /\ Len(s) + i \in 1..(Len(s) + Len(t)) /\ ~(Len(s) + i <= Len(s))
        /\ Len(s) + i - Len(s) = i
    BY <1>1
  <2> QED
    BY <1>2, <2>1
<1> QED
  BY <1>1, <1>2, <1>3, <1>4

LEMMA HeaderRead ==
  ASSUME NEW content \in Seq(Characters), NEW H, Clear(H)
  PROVE  /\ Headed(H, content) \in Seq(Characters)
         /\ IsPrefix(Rule, Headed(H, content))
         /\ Rules(Headed(H, content)) # {} /\ Min(Rules(Headed(H, content))) = Len(H) + 3
         /\ HeaderUpto(Headed(H, content), Len(H) + 3) = H
         /\ SubSeq(Headed(H, content), Len(H) + 3 + Len(Rule), Len(Headed(H, content))) = content
<1> DEFINE n == Len(H)
           t == Headed(H, content)
           m == n + 3
           rules == Rules(t)
           header == HeaderUpto(t, m)
<1>1. n \in Nat /\ m \in Nat /\ m = n + 3
  BY LenProperties DEF Clear, Plain
<1>2. Rule \in Seq(Characters) /\ Len(Rule) = 2 /\ Rule[1] = "-" /\ Rule[2] = NL /\ NL # "-" /\ NL \in Characters
  BY RuleOK, PlainText, DifferentCharacters DEF Text
<1>4. /\ H \in Seq(Characters) /\ Len(H) = n
      /\ \A j \in 1..n : H[j] = "-" => j + 1 \in 1..n /\ H[j + 1] # NL
  BY PlainText DEF Clear, Text
<1> HIDE DEF n
<1>5. t = ((Rule \o H) \o Rule) \o content
  BY DEF Headed, Cat
<1> DEFINE rh == Rule \o H
           rhr == rh \o Rule
<1>6. /\ rh \in Seq(Characters) /\ Len(rh) = 2 + n
      /\ \A i \in 1..2 : rh[i] = Rule[i]
      /\ \A i \in 1..n : rh[2 + i] = H[i]
  <2>1. /\ Rule \o H \in Seq(Characters) /\ Len(Rule \o H) = Len(Rule) + Len(H)
        /\ \A i \in 1..Len(Rule) : (Rule \o H)[i] = Rule[i]
        /\ \A i \in 1..Len(H) : (Rule \o H)[Len(Rule) + i] = H[i]
    BY <1>2, <1>4, Joined
  <2> QED
    BY <1>2, <1>4, <2>1
<1> HIDE DEF rh
<1>7. /\ rhr \in Seq(Characters) /\ Len(rhr) = 2 + n + 2
      /\ \A i \in 1..(2 + n) : rhr[i] = rh[i]
      /\ \A i \in 1..2 : rhr[2 + n + i] = Rule[i]
  <2>1. /\ rh \o Rule \in Seq(Characters) /\ Len(rh \o Rule) = Len(rh) + Len(Rule)
        /\ \A i \in 1..Len(rh) : (rh \o Rule)[i] = rh[i]
        /\ \A i \in 1..Len(Rule) : (rh \o Rule)[Len(rh) + i] = Rule[i]
    BY <1>2, <1>6, Joined
  <2> QED
    BY <1>2, <1>6, <2>1
<1> HIDE DEF rhr
<1>8. /\ t \in Seq(Characters) /\ Len(t) = 2 + n + 2 + Len(content) /\ Len(content) \in Nat
      /\ \A i \in 1..(2 + n + 2) : t[i] = rhr[i]
      /\ \A i \in 1..Len(content) : t[2 + n + 2 + i] = content[i]
  <2>1. t = rhr \o content
    BY <1>5 DEF rhr, rh
  <2>2. /\ rhr \o content \in Seq(Characters) /\ Len(content) \in Nat
        /\ Len(rhr \o content) = Len(rhr) + Len(content)
        /\ \A i \in 1..Len(rhr) : (rhr \o content)[i] = rhr[i]
        /\ \A i \in 1..Len(content) : (rhr \o content)[Len(rhr) + i] = content[i]
    BY <1>7, Joined
  <2> HIDE DEF t
  <2> QED
    BY <1>7, <2>1, <2>2
<1> HIDE DEF t
<1>9. /\ t[1] = "-" /\ t[2] = NL /\ t[m] = "-" /\ t[m + 1] = NL
      /\ \A i \in 1..n : t[2 + i] = H[i]
      /\ \A i \in 1..Len(content) : t[m + 1 + i] = content[i]
  <2>1. t[1] = Rule[1] /\ t[2] = Rule[2]
    <3>1. \A i \in 1..2 : i \in 1..(2 + n + 2) /\ i \in 1..(2 + n)
      BY <1>1
    <3>2. \A i \in 1..2 : t[i] = Rule[i]
      BY <3>1, <1>6, <1>7, <1>8
    <3> QED
      BY <3>2
  <2>2. ASSUME NEW i \in 1..n
        PROVE  t[2 + i] = H[i]
    <3>1. 2 + i \in 1..(2 + n + 2) /\ 2 + i \in 1..(2 + n)
      BY <1>1
    <3> QED
      BY <3>1, <1>6, <1>7, <1>8
  <2>3. t[m] = Rule[1] /\ t[m + 1] = Rule[2]
    <3>1. t[2 + n + 1] = rhr[2 + n + 1] /\ t[2 + n + 2] = rhr[2 + n + 2]
      BY <1>1, <1>8
    <3>2. rhr[2 + n + 1] = Rule[1] /\ rhr[2 + n + 2] = Rule[2]
      BY <1>7
    <3>3. 2 + n + 1 = m /\ 2 + n + 2 = m + 1
      BY <1>1
    <3> QED
      BY <3>1, <3>2, <3>3
  <2>4. \A i \in 1..Len(content) : m + 1 + i = 2 + n + 2 + i
    BY <1>1, <1>8
  <2>5. t[1] = "-" /\ t[2] = NL /\ t[m] = "-" /\ t[m + 1] = NL
    BY <1>2, <2>1, <2>3
  <2>6. \A i \in 1..n : t[2 + i] = H[i]
    BY <2>2
  <2>7. \A i \in 1..Len(content) : t[m + 1 + i] = content[i]
    BY <1>8, <2>4
  <2> QED
    BY <2>5, <2>6, <2>7
<1> HIDE DEF m
<1>10. \A i, j \in Int : 1 <= i /\ j <= Len(t) =>
         /\ SubSeq(t, i, j) \in Seq(Characters)
         /\ Len(SubSeq(t, i, j)) = IF i <= j THEN j - i + 1 ELSE 0
         /\ \A k \in 1..(j - i + 1) : SubSeq(t, i, j)[k] = t[i + k - 1]
  <2> SUFFICES ASSUME NEW i \in Int, NEW j \in Int, 1 <= i, j <= Len(t)
               PROVE  /\ SubSeq(t, i, j) \in Seq(Characters)
                      /\ Len(SubSeq(t, i, j)) = IF i <= j THEN j - i + 1 ELSE 0
                      /\ \A k \in 1..(j - i + 1) : SubSeq(t, i, j)[k] = t[i + k - 1]
    OBVIOUS
  <2>1. Len(t) \in Nat /\ \A k \in i..j : k \in 1..Len(t)
    BY <1>8, LenProperties
  <2>2. \A k \in i..j : t[k] \in Characters
    BY <1>8, <2>1, ElementOfSeq
  <2> QED
    BY <2>2, SubSeqProperties
<1>11. m \in rules /\ \A i \in rules : m <= i
  <2>1. SubSeq(t, m, m + 1) = Rule
    <3>1. m \in Int /\ m + 1 \in Int /\ 1 <= m /\ m + 1 <= Len(t)
      BY <1>1, <1>8
    <3> DEFINE u == SubSeq(t, m, m + 1)
    <3>2. /\ u \in Seq(Characters) /\ Len(u) = IF m <= m + 1 THEN m + 1 - m + 1 ELSE 0
          /\ \A k \in 1..(m + 1 - m + 1) : u[k] = t[m + k - 1]
      BY <1>10, <3>1
    <3>3. Len(u) = 2 /\ u[1] = t[m] /\ u[2] = t[m + 1]
      BY <1>1, <3>2
    <3> HIDE DEF u
    <3>4. u = Rule
      BY <1>2, <1>9, <3>2, <3>3, SeqEqual
    <3> QED
      BY <3>4 DEF u
  <2>2. m \in rules
    <3>1. m \in 1..(Len(t) - Len(Rule) + 1) /\ m + Len(Rule) - 1 = m + 1 /\ m > Len(Rule)
      BY <1>1, <1>2, <1>8
    <3> QED
      BY <2>1, <3>1 DEF Occurrences, Rules
  <2>3. ASSUME NEW i \in rules
        PROVE  m <= i
    <3>1. /\ i \in 1..(Len(t) - 2 + 1) /\ SubSeq(t, i, i + 2 - 1) = Rule /\ i > 2
      BY <1>2, <2>3 DEF Occurrences, Rules
    <3>2. i \in Int /\ i + 2 - 1 \in Int /\ 1 <= i /\ i + 2 - 1 <= Len(t)
      BY <1>1, <1>8, <3>1
    <3>3. SubSeq(t, i, i + 2 - 1)[1] = t[i] /\ SubSeq(t, i, i + 2 - 1)[2] = t[i + 1]
      <4> DEFINE u == SubSeq(t, i, i + 2 - 1)
      <4>1. \A k \in 1..(i + 2 - 1 - i + 1) : u[k] = t[i + k - 1]
        BY <1>10, <3>2
      <4> HIDE DEF u
      <4>2. u[1] = t[i + 1 - 1] /\ u[2] = t[i + 2 - 1] /\ i + 1 - 1 = i /\ i + 2 - 1 = i + 1
        BY <3>2, <4>1
      <4>3. u[1] = t[i] /\ u[2] = t[i + 1]
        BY <4>2
      <4> QED
        BY <4>3 DEF u
    <3>4. t[i] = "-" /\ t[i + 1] = NL
      BY <1>2, <3>1, <3>3
    <3>5. ~(i - 2 \in 1..n)
      <4> SUFFICES ASSUME i - 2 \in 1..n
                   PROVE  FALSE
        OBVIOUS
      <4>1. H[i - 2] = t[i]
        <5>1. t[2 + (i - 2)] = H[i - 2] /\ 2 + (i - 2) = i
          BY <1>9, <3>2
        <5> QED
          BY <5>1
      <4>2. i - 2 + 1 \in 1..n /\ H[i - 2 + 1] # NL
        BY <1>4, <3>4, <4>1
      <4>3. t[2 + (i - 2 + 1)] = H[i - 2 + 1] /\ 2 + (i - 2 + 1) = i + 1
        BY <1>9, <3>2, <4>2
      <4> QED
        BY <3>4, <4>2, <4>3
    <3> QED
      BY <1>1, <3>1, <3>2, <3>5
  <2> QED
    BY <2>2, <2>3
<1>12. Min(rules) = m
  <2>1. \A i \in rules : i \in Int
    BY DEF Occurrences, Rules
  <2> HIDE DEF rules
  <2>2. Min(rules) \in rules /\ \A y \in rules : Min(rules) <= y
    BY <1>11 DEF Min
  <2>3. Min(rules) \in Int /\ Min(rules) <= m /\ m <= Min(rules)
    BY <1>11, <2>1, <2>2
  <2> QED
    BY <1>1, <2>3
<1>13. header = H
  <2>1. header = SubSeq(t, 3, m - 1)
    <3>1. Len(Rule) + 1 = 3
      BY <1>2
    <3> QED
      BY <3>1 DEF HeaderUpto
  <2>2. 3 \in Int /\ m - 1 \in Int /\ m - 1 <= Len(t) /\ 1 <= 3
    BY <1>1, <1>8
  <2>3. /\ header \in Seq(Characters) /\ Len(header) = IF 3 <= m - 1 THEN m - 1 - 3 + 1 ELSE 0
        /\ \A k \in 1..(m - 1 - 3 + 1) : header[k] = t[3 + k - 1]
    <3> DEFINE u == SubSeq(t, 3, m - 1)
    <3>1. /\ u \in Seq(Characters) /\ Len(u) = IF 3 <= m - 1 THEN m - 1 - 3 + 1 ELSE 0
          /\ \A k \in 1..(m - 1 - 3 + 1) : u[k] = t[3 + k - 1]
      BY <1>10, <2>2
    <3> HIDE DEF header
    <3> QED
      BY <2>1, <3>1
  <2> HIDE DEF header
  <2>4. Len(header) = n /\ \A k \in 1..n : header[k] = t[2 + k]
    BY <1>1, <2>3
  <2>5. \A k \in 1..n : header[k] = H[k]
    BY <1>9, <2>4
  <2>6. header \in Seq(Characters)
    BY <2>3
  <2> QED
    BY <1>4, <2>4, <2>5, <2>6, SeqEqual
<1>16. SubSeq(t, m + 2, Len(t)) = content
  <2> DEFINE u == SubSeq(t, m + 2, Len(t))
             l == Len(content)
  <2>1. m + 2 \in Int /\ Len(t) \in Int /\ Len(t) <= Len(t) /\ 1 <= m + 2 /\ l \in Nat
        /\ Len(t) = m + 1 + l
    BY <1>1, <1>8
  <2>2. /\ u \in Seq(Characters)
        /\ Len(u) = IF m + 2 <= Len(t) THEN Len(t) - (m + 2) + 1 ELSE 0
        /\ \A k \in 1..(Len(t) - (m + 2) + 1) : u[k] = t[m + 2 + k - 1]
    BY <1>10, <2>1
  <2> HIDE DEF u, l
  <2>3. Len(u) = l /\ \A k \in 1..l : u[k] = t[m + 1 + k]
    BY <1>1, <2>1, <2>2
  <2>4. u = content
    BY <1>9, <2>2, <2>3, SeqEqual DEF l
  <2> QED
    BY <2>4 DEF u
<1>17. IsPrefix(Rule, t)
  <2>1. Len(t) \in Nat /\ 2 <= Len(t)
    BY <1>1, <1>8
  <2>2. /\ SubSeq(t, 1, 2) \in Seq(Characters) /\ Len(SubSeq(t, 1, 2)) = 2
        /\ \A k \in 1..2 : SubSeq(t, 1, 2)[k] = t[k]
    BY <1>10, <2>1
  <2>3. SubSeq(t, 1, 2) = Rule
    BY <1>2, <1>9, <2>2, SeqEqual
  <2>4. SubSeq(Rule, 1, Len(Rule)) = Rule
    BY <1>2, SubSeqFull
  <2> QED
    BY <1>2, <2>1, <2>3, <2>4 DEF IsPrefix
<1> QED
  BY <1>2, <1>8, <1>11, <1>12, <1>13, <1>16, <1>17 DEF t, n, m, rules, header

\* What a write stores is read again.
LEMMA WrittenReadAgain ==
  ASSUME NEW content \in Seq(Characters), NEW tags \in Seq(Tags)
  PROVE  /\ WithFrontmatter(content, tags) # None
         /\ ReadAgain(WithFrontmatter(content, tags), [tags |-> tags, content |-> content])
<1> DEFINE text == WithFrontmatter(content, tags)
           written == [tags |-> tags, content |-> content]
           h == Header(tags)
           head == Cat(Cat(Rule, h), Rule)
<1>0. content \in Text /\ AsRead(content) \in Seq(Characters) /\ None \notin Seq(Characters)
  BY AsReadOK, TextAssumption DEF Text
<1>1. tags # <<>> => text = Headed(h, content)
  BY DEF WithFrontmatter, Headed, Cat
<1>2. CASE tags = <<>>
  <2>1. text = content /\ text # None
    BY <1>0, <1>2 DEF WithFrontmatter
  <2>2. CASE IsPrefix(Rule, AsRead(content))
    <3>1. Misread(written)
      BY <1>2, <2>2 DEF Misread
    <3> QED
      BY <2>1, <3>1 DEF ReadAgain
  <2>3. CASE ~IsPrefix(Rule, AsRead(content))
    <3>1. Frontmatter(AsRead(content)) = [tags |-> tags, content |-> AsRead(content)]
      BY <1>2, <2>3, Zenon DEF Frontmatter
    <3> QED
      BY <2>1, <3>1 DEF ReadAgain
  <2> QED
    BY <2>2, <2>3
<1>3. CASE tags # <<>> /\ \E k \in DOMAIN tags : Last(tags[k]) = "-"
  <2>1. Misread(written)
    BY <1>3 DEF Misread
  <2>2. text # None
    <3>1. h \in Text
      <4>1. <<>> \in Text /\ tags \in Seq(Text)
        BY EmptySeq, TagsAreTexts DEF Text
      <4>2. Append(tags, <<>>) \in Seq(Text)
        BY <4>1, AppendProperties
      <4> QED
        BY <4>2, JoinOK DEF Header
    <3>2. Rule \in Text
      BY RuleOK, PlainText
    <3>3. Headed(h, content) \in Text
      <4>1. Cat(Rule, h) \in Text
        BY <3>1, <3>2, CatIsCat DEF Text
      <4>2. head \in Text
        BY <3>2, <4>1, CatIsCat DEF Text
      <4> HIDE DEF head
      <4>3. Cat(head, content) \in Text
        BY <1>0, <4>2, CatIsCat DEF Text
      <4> QED
        BY <4>3 DEF Headed, head
    <3> QED
      BY <1>0, <1>1, <1>3, <3>3 DEF Text
  <2> QED
    BY <2>1, <2>2 DEF ReadAgain
<1>4. CASE tags # <<>> /\ ~\E k \in DOMAIN tags : Last(tags[k]) = "-"
  <2>1. tags \in Seq(CleanTags)
    <3>1. Len(tags) \in Nat /\ DOMAIN tags = 1..Len(tags) /\ tags \in [1..Len(tags) -> Tags]
      BY LenProperties
    <3>2. \A k \in 1..Len(tags) : tags[k] \in CleanTags
      BY <1>4, <3>1 DEF CleanTags
    <3>3. tags \in [1..Len(tags) -> CleanTags]
      BY <3>1, <3>2
    <3> QED
      BY <3>1, <3>3, SeqDef
  <2>2. Clear(h)
    BY <2>1, HeaderClear
  <2> DEFINE read == AsRead(content)
             whole == Headed(h, read)
             i == Len(h) + 3
  <2> HIDE DEF h
  <2>3. AsRead(Headed(h, content)) = whole
    <3>1. head \in Plain
      <4> DEFINE S == Characters \ {CR}
      <4>1. Rule \in Seq(S) /\ h \in Seq(S)
        BY <2>2, RuleOK DEF Clear, Plain
      <4> HIDE DEF S
      <4>2. Cat(Rule, h) \in Seq(S)
        BY <4>1, CatIsCat
      <4>3. head \in Seq(S)
        BY <4>1, <4>2, CatIsCat
      <4> QED
        BY <4>3 DEF S, Plain
    <3> HIDE DEF head
    <3>2. AsRead(Cat(head, content)) = Cat(head, AsRead(content))
      BY <1>0, <3>1, AsReadAfter
    <3> QED
      BY <3>2 DEF Headed, head
  <2>4. TagsIn(h) = tags /\ IsTagList(tags)
    BY <1>4, TagsOfHeader DEF h
  <2> HIDE DEF read
  <2>5. /\ IsPrefix(Rule, whole) /\ Rules(whole) # {} /\ Min(Rules(whole)) = i
        /\ HeaderUpto(whole, i) = h /\ SubSeq(whole, i + Len(Rule), Len(whole)) = read
    BY <1>0, <2>2, HeaderRead DEF read
  <2>6. Headed(h, content) \in Seq(Characters)
    BY <2>2, HeaderRead
  <2> HIDE DEF whole, i
  <2>7. Frontmatter(whole) = SplitAt(whole, i)
    BY <2>5, Zenon DEF Frontmatter
  <2>8. SplitAt(whole, i) = [tags |-> tags, content |-> read]
    BY <2>4, <2>5, Zenon DEF SplitAt
  <2>9. text = Headed(h, content)
    BY <1>1, <1>4
  <2>10. Frontmatter(AsRead(text)) = [tags |-> tags, content |-> AsRead(content)]
    BY <2>3, <2>7, <2>8, <2>9 DEF read
  <2>11. text # None
    BY <1>0, <2>6, <2>9
  <2> HIDE DEF text
  <2>12. ReadAgain(text, written)
    BY <2>10, <2>11 DEF ReadAgain
  <2> QED
    BY <2>11, <2>12 DEF text
<1> QED
  BY <1>2, <1>3, <1>4

\* A step that changes the memory of one session only.
LEMMA OneSession ==
  ASSUME MemInv, NEW s \in MemSessions, NEW files, NEW dirs, NEW written,
         memory' = [memory EXCEPT ![s] = files],
         \/ folders' = [folders EXCEPT ![s] = dirs]
         \/ folders' = folders /\ dirs = folders[s],
         wrote' = [wrote EXCEPT ![s] = written], SessionMemoryOK(files, dirs, written)
  PROVE  MemInv'
<1>1. DOMAIN memory' = MemSessions /\ DOMAIN folders' = MemSessions /\ DOMAIN wrote' = MemSessions
  BY DEF MemInv
<1>2. ASSUME NEW q \in MemSessions
      PROVE  SessionMemoryOK(memory'[q], folders'[q], wrote'[q])
  <2>1. CASE q = s
    BY <2>1 DEF MemInv
  <2>2. CASE q # s
    <3>1. memory'[q] = memory[q] /\ folders'[q] = folders[q] /\ wrote'[q] = wrote[q]
      BY <2>2 DEF MemInv
    <3>2. SessionMemoryOK(memory[q], folders[q], wrote[q])
      BY DEF MemInv
    <3> QED
      BY <3>1, <3>2
  <2> QED
    BY <2>1, <2>2
<1>3. \A q \in MemSessions : SessionMemoryOK(memory[q], folders[q], wrote[q])'
  BY <1>2 DEF SessionMemoryOK, Held, ReadAgain
<1> QED
  BY <1>1, <1>3 DEF MemInv

LEMMA WriteMemoryInv ==
  ASSUME MemInv, NEW c \in MemCommands, WriteMemory(c) \/ EditMemory(c)
  PROVE  MemInv'
<1> DEFINE s == c.session
           f == c.path
<1>1. s \in MemSessions /\ f \in MemFiles
  BY MemCommandsAssumption DEF WriteMemory, EditMemory
<1>2. SessionMemoryOK(memory[s], folders[s], wrote[s])
  BY <1>1 DEF MemInv
<1>3. CASE WriteMemory(c)
  <2> DEFINE text == WithFrontmatter(c.content, c.tags)
             files == [memory[s] EXCEPT ![f] = text]
             written == [wrote[s] EXCEPT ![f] = [tags |-> c.tags, content |-> c.content]]
             dirs == folders[s] \cup Parents(f)
  <2>1. text # None /\ ReadAgain(text, [tags |-> c.tags, content |-> c.content])
    BY <1>3, MemCommandsAssumption, WrittenReadAgain DEF WriteMemory
  <2>2. /\ memory' = [memory EXCEPT ![s] = files] /\ wrote' = [wrote EXCEPT ![s] = written]
        /\ folders' = [folders EXCEPT ![s] = dirs]
    BY <1>3 DEF WriteMemory
  <2> HIDE DEF text
  <2>3. dirs = Held(files)
    BY <1>1, <1>2, <2>1 DEF SessionMemoryOK, Held
  <2>4. \A g \in MemFiles : ReadAgain(files[g], written[g])
    BY <1>1, <1>2, <2>1 DEF SessionMemoryOK
  <2>5. SessionMemoryOK(files, dirs, written)
    BY <1>2, <2>3, <2>4 DEF SessionMemoryOK
  <2> HIDE DEF files, written, dirs, s
  <2> QED
    BY <1>1, <2>2, <2>5, OneSession
<1>4. CASE EditMemory(c) /\ UNCHANGED <<memory, wrote>>
  BY <1>4 DEF EditMemory, MemInv, SessionMemoryOK, Held, ReadAgain
<1>5. CASE EditMemory(c) /\ ~UNCHANGED <<memory, wrote>>
  <2> DEFINE text == IF memory[s][f] = None THEN None
                     ELSE StrReplaced(AsRead(memory[s][f]), c.old, c.new)
             files == [memory[s] EXCEPT ![f] = text]
             written == [wrote[s] EXCEPT ![f] = None]
  <2>1. /\ text # None /\ memory[s][f] # None
        /\ memory' = [memory EXCEPT ![s] = files] /\ wrote' = [wrote EXCEPT ![s] = written]
        /\ folders' = folders
    BY <1>5 DEF EditMemory
  <2> HIDE DEF text
  <2>2. folders[s] = Held(files)
    BY <1>1, <1>2, <2>1 DEF SessionMemoryOK, Held
  <2>3. \A g \in MemFiles : ReadAgain(files[g], written[g])
    BY <1>1, <1>2 DEF SessionMemoryOK, ReadAgain
  <2>4. SessionMemoryOK(files, folders[s], written)
    BY <1>2, <2>2, <2>3 DEF SessionMemoryOK
  <2> HIDE DEF files, written, s
  <2> QED
    BY <1>1, <2>1, <2>4, OneSession
<1> QED
  BY <1>3, <1>4, <1>5

LEMMA DeleteMemoryInv ==
  ASSUME MemInv, NEW c \in MemCommands, DeleteMemory(c)
  PROVE  MemInv'
<1> DEFINE s == c.session
           done == DeletedUpto(memory[s], folders[s], c.paths)[Len(c.paths)]
           written == [f \in MemFiles |-> IF done.files[f] = None THEN None ELSE wrote[s][f]]
<1>1. s \in MemSessions /\ Len(c.paths) \in Nat
  BY MemCommandsAssumption, LenProperties DEF DeleteMemory
<1>2. SessionMemoryOK(memory[s], folders[s], wrote[s])
  BY <1>1 DEF MemInv
<1>3. DeletedOK(memory[s], done)
  BY <1>1, <1>2, DeletedUptoOK DEF SessionMemoryOK
<1>4. /\ memory' = [memory EXCEPT ![s] = done.files] /\ folders' = [folders EXCEPT ![s] = done.dirs]
      /\ wrote' = [wrote EXCEPT ![s] = written]
  BY DEF DeleteMemory
<1> HIDE DEF done
<1>5. SessionMemoryOK(done.files, done.dirs, written)
  <2>1. \A f \in MemFiles : ReadAgain(done.files[f], written[f])
    <3> TAKE f \in MemFiles
    <3>1. CASE done.files[f] = None
      BY <3>1 DEF ReadAgain
    <3>2. CASE done.files[f] # None
      <4>1. done.files[f] = memory[s][f] /\ written[f] = wrote[s][f]
        BY <1>3, <3>2 DEF DeletedOK
      <4> QED
        BY <1>2, <4>1 DEF SessionMemoryOK
    <3> QED
      BY <3>1, <3>2
  <2> QED
    BY <1>3, <2>1 DEF DeletedOK, SessionMemoryOK
<1> HIDE DEF s, written
<1> QED
  BY <1>1, <1>4, <1>5, OneSession

LEMMA ImportMemoryInv ==
  ASSUME MemInv, NEW c \in MemCommands, ImportMemory(c)
  PROVE  MemInv'
<1> DEFINE s == c.session
           done == ImportedUpto(s, c.from)[Len(c.from)]
<1>1. s \in MemSessions /\ c.from \in Seq(MemSessions)
  BY MemCommandsAssumption DEF ImportMemory
<1>2. ImportedOK(done)
  BY <1>1, ImportedUptoOK
<1>3. /\ memory' = [memory EXCEPT ![s] = done.files] /\ folders' = [folders EXCEPT ![s] = done.dirs]
      /\ wrote' = [wrote EXCEPT ![s] = done.wrote]
  BY DEF ImportMemory
<1> HIDE DEF s, done
<1> QED
  BY <1>1, <1>2, <1>3, OneSession DEF ImportedOK

LEMMA ToolsMemInv == ToolsSpec => []MemInv
<1>1. ASSUME ToolsInit
      PROVE  MemInv
  <2>1. /\ memory = [s \in MemSessions |-> [f \in MemFiles |-> None]] /\ wrote = memory
        /\ folders = [s \in MemSessions |-> {}]
    BY <1>1 DEF ToolsInit, MemInit
  <2> QED
    BY <2>1 DEF MemInv, SessionMemoryOK, Held, ReadAgain
<1>2. ASSUME MemInv, UNCHANGED <<memory, folders, wrote>>
      PROVE  MemInv'
  BY <1>2 DEF MemInv, SessionMemoryOK, Held, ReadAgain
<1>3. ASSUME MemInv, [ToolsNext]_<<fileVars, memVars, commandVars, tool>>
      PROVE  MemInv'
  <2>1. CASE UNCHANGED memVars
    BY <1>2, <1>3, <2>1 DEF memVars
  <2>2. CASE MemNext
    <3>1. PICK c \in MemCommands :
            \/ SearchMemory(c) \/ ReadMemory(c) \/ WriteMemory(c) \/ EditMemory(c)
            \/ DeleteMemory(c) \/ ImportMemory(c) \/ InvokeLlm(c) \/ SnoozeReminder(c)
      BY <2>2 DEF MemNext
    <3>2. CASE SearchMemory(c) \/ ReadMemory(c) \/ InvokeLlm(c) \/ SnoozeReminder(c)
      BY <1>2, <1>3, <3>2 DEF SearchMemory, ReadMemory, InvokeLlm, SnoozeReminder
    <3> QED
      BY <1>3, <3>1, <3>2, WriteMemoryInv, DeleteMemoryInv, ImportMemoryInv
  <2> QED
    BY <1>3, <2>1, <2>2 DEF ToolsNext
<1> QED
  BY <1>1, <1>3, PTL DEF ToolsSpec

\* For all trees and commands: the directories that are there are those of the files,
\* after writes, deletions that stop half way, and imports.
THEOREM FoldersTheorem == ToolsSpec => []FoldersHoldFiles
<1>1. MemInv => FoldersHoldFiles
  BY DEF MemInv, SessionMemoryOK, Held, Present, FoldersHoldFiles
<1> QED
  BY <1>1, ToolsMemInv, PTL

\* For all contents and tags: what was written is read again, whatever was deleted and
\* imported, unless a content without tags looks like a header or a tag ends like a
\* rule.
THEOREM WrittenIsReadTheorem == ToolsSpec => []WrittenIsRead
<1>1. MemInv => WrittenIsRead
  BY DEF MemInv, SessionMemoryOK, ReadAgain, WrittenIsRead
<1> QED
  BY <1>1, ToolsMemInv, PTL

-----------------------------------------------------------------------------
\* The command line.

LEMMA TokensOfDef ==
  ASSUME NEW node, Len(node) \in Nat
  PROVE  \E upto :
           /\ upto[0] = <<>>
           /\ \A k \in 1..Len(node) :
                upto[k] = IF /\ node[k].type \in Words \cup {"command_name"}
                             /\ \A j \in 1..k : node[j].type \notin Stops
                          THEN Append(upto[k - 1], node[k].text)
                          ELSE upto[k - 1]
           /\ TokensOf(node) = upto[Len(node)]
<1> DEFINE Kept(k) == /\ node[k].type \in Words \cup {"command_name"}
                      /\ \A j \in 1..k : node[j].type \notin Stops
           Next1(t, k) == IF Kept(k) THEN Append(t, node[k].text) ELSE t
           Is(f, n) == f = [k \in 0..n |-> IF k = 0 THEN <<>> ELSE Next1(f[k - 1], k)]
           P == [n \in Nat |-> \E f : Is(f, n)]
<1>5. ASSUME NEW f, Is(f, Len(node))
      PROVE  f = [k \in 0..Len(node) |->
                    IF k = 0 THEN <<>>
                    ELSE IF /\ node[k].type \in Words \cup {"command_name"}
                            /\ \A j \in 1..k : node[j].type \notin Stops
                         THEN Append(f[k - 1], node[k].text)
                         ELSE f[k - 1]]
  BY <1>5
<1>6. TokensOf(node) = (CHOOSE f : Is(f, Len(node)))[Len(node)]
  BY DEF TokensOf
<1>7. \A t, k : Next1(t, k) = IF /\ node[k].type \in Words \cup {"command_name"}
                                 /\ \A j \in 1..k : node[j].type \notin Stops
                              THEN Append(t, node[k].text) ELSE t
  OBVIOUS
<1> HIDE DEF Next1
<1>1. P[0]
  <2>1. Is([k \in 0..0 |-> <<>>], 0)
    OBVIOUS
  <2> QED
    BY <2>1
<1>2. ASSUME NEW n \in Nat, P[n]
      PROVE  P[n + 1]
  <2>1. PICK f : Is(f, n)
    BY <1>2
  <2> DEFINE g == [k \in 0..(n + 1) |-> IF k = n + 1 THEN Next1(f[n], n + 1) ELSE f[k]]
  <2>2. \A k \in 0..n : g[k] = f[k]
    OBVIOUS
  <2>3. \A k \in 0..(n + 1) : g[k] = IF k = 0 THEN <<>> ELSE Next1(g[k - 1], k)
    <3> SUFFICES ASSUME NEW k \in 0..(n + 1)
                 PROVE  g[k] = IF k = 0 THEN <<>> ELSE Next1(g[k - 1], k)
      OBVIOUS
    <3>1. CASE k = n + 1
      <4>1. k # 0 /\ k - 1 = n /\ n \in 0..n
        BY <3>1
      <4> QED
        BY <3>1, <4>1, <2>2
    <3>2. CASE k \in 1..n
      <4>1. k # 0 /\ k - 1 \in 0..n /\ k \in 0..n
        BY <3>2
      <4>2. f[k] = Next1(f[k - 1], k)
        BY <4>1, <2>1
      <4> QED
        BY <4>1, <4>2, <2>2
    <3>3. CASE k = 0
      BY <3>3, <2>1, <2>2
    <3> QED
      BY <3>1, <3>2, <3>3
  <2>4. Is(g, n + 1)
    BY <2>3
  <2> HIDE DEF g, Is
  <2> QED
    BY <2>4
<1>3. \A n \in Nat : P[n]
  <2> HIDE DEF Is
  <2>1. P \in [Nat -> BOOLEAN]
    OBVIOUS
  <2> HIDE DEF P
  <2> QED
    BY <1>1, <1>2, <2>1, Induction
<1> DEFINE upto == CHOOSE f : Is(f, Len(node))
<1>4. Is(upto, Len(node))
  <2>1. \E f : Is(f, Len(node))
    BY <1>3
  <2> HIDE DEF Is
  <2> QED
    BY <2>1
<1>8. TokensOf(node) = upto[Len(node)]
  BY <1>6
<1> HIDE DEF upto
<1>9. upto[0] = <<>> /\ \A k \in 1..Len(node) : upto[k] = Next1(upto[k - 1], k)
  BY <1>4
<1> QED
  BY <1>7, <1>8, <1>9

\* The tokens of a node are its words.
LEMMA TokensOfOK ==
  ASSUME NEW node \in Seq([type : STRING, text : DOMAIN FormOf])
  PROVE  TokensOf(node) \in Seq(DOMAIN FormOf)
<1>1. Len(node) \in Nat /\ \A k \in 1..Len(node) : node[k].text \in DOMAIN FormOf
  <2>1. Len(node) \in Nat
    BY LenProperties
  <2>2. ASSUME NEW k \in 1..Len(node)
        PROVE  node[k].text \in DOMAIN FormOf
    <3>1. node[k] \in [type : STRING, text : DOMAIN FormOf]
      BY ElementOfSeq
    <3> QED
      BY <3>1
  <2> QED
    BY <2>1, <2>2
<1>2. PICK upto :
        /\ upto[0] = <<>>
        /\ \A k \in 1..Len(node) :
             upto[k] = IF /\ node[k].type \in Words \cup {"command_name"}
                          /\ \A j \in 1..k : node[j].type \notin Stops
                       THEN Append(upto[k - 1], node[k].text)
                       ELSE upto[k - 1]
        /\ TokensOf(node) = upto[Len(node)]
  BY <1>1, TokensOfDef
<1>7. \A k \in 1..Len(node) : \/ upto[k] = Append(upto[k - 1], node[k].text)
                              \/ upto[k] = upto[k - 1]
  BY <1>2
<1> DEFINE OK(n) == n <= Len(node) => upto[n] \in Seq(DOMAIN FormOf)
           P == [n \in Nat |-> OK(n)]
<1>3. OK(0)
  BY <1>2
<1>4. ASSUME NEW n \in Nat, OK(n)
      PROVE  OK(n + 1)
  <2> SUFFICES ASSUME n + 1 <= Len(node)
               PROVE  upto[n + 1] \in Seq(DOMAIN FormOf)
    OBVIOUS
  <2>1. n + 1 \in 1..Len(node) /\ n + 1 - 1 = n
    BY <1>1
  <2>2. upto[n + 1] = Append(upto[n], node[n + 1].text) \/ upto[n + 1] = upto[n]
    BY <1>7, <2>1
  <2>3. upto[n] \in Seq(DOMAIN FormOf) /\ node[n + 1].text \in DOMAIN FormOf
    <3>1. n <= Len(node)
      BY <1>1, <2>1
    <3> QED
      BY <1>1, <1>4, <2>1, <3>1
  <2>4. \A S, t, e : t \in Seq(S) /\ e \in S => Append(t, e) \in Seq(S)
    BY AppendProperties
  <2>5. Append(upto[n], node[n + 1].text) \in Seq(DOMAIN FormOf)
    BY <2>3, <2>4, Zenon
  <2> QED
    BY <2>2, <2>3, <2>5, Zenon
<1>5. P \in [Nat -> BOOLEAN]
  OBVIOUS
<1> HIDE DEF OK
<1>6. \A n \in Nat : P[n]
  <2>1. P[0] /\ \A n \in Nat : P[n] => P[n + 1]
    BY <1>3, <1>4
  <2> HIDE DEF P
  <2> QED
    BY <1>5, <2>1, Induction
<1> QED
  <2>1. OK(Len(node))
    BY <1>1, <1>6
  <2>2. upto[Len(node)] \in Seq(DOMAIN FormOf)
    BY <1>1, <2>1 DEF OK
  <2> QED
    BY <1>2, <2>2

LEMMA ParsedUptoDef ==
  ASSUME NEW withArgs, NEW args, Len(args) \in Nat
  PROVE  LET upto == ParsedUpto(withArgs, args)
         IN  /\ upto[0] = [options |-> {}, positional |-> 0, current |-> Absent, ended |-> FALSE]
             /\ \A k \in 1..Len(args) : upto[k] = ParsedArg(withArgs, upto[k - 1], args[k])
<1> DEFINE first == [options |-> {}, positional |-> 0, current |-> Absent, ended |-> FALSE]
           Next1(st, k) == ParsedArg(withArgs, st, args[k])
           Is(f, n) == f = [k \in 0..n |-> IF k = 0 THEN first ELSE Next1(f[k - 1], k)]
           P == [n \in Nat |-> \E f : Is(f, n)]
<1>5. ParsedUpto(withArgs, args) = CHOOSE f : Is(f, Len(args))
  BY DEF ParsedUpto
<1>6. \A st, k : Next1(st, k) = ParsedArg(withArgs, st, args[k])
  OBVIOUS
<1> HIDE DEF Next1, first
<1>1. P[0]
  <2>1. Is([k \in 0..0 |-> first], 0)
    OBVIOUS
  <2> QED
    BY <2>1
<1>2. ASSUME NEW n \in Nat, P[n]
      PROVE  P[n + 1]
  <2>1. PICK f : Is(f, n)
    BY <1>2
  <2> DEFINE g == [k \in 0..(n + 1) |-> IF k = n + 1 THEN Next1(f[n], n + 1) ELSE f[k]]
  <2>2. \A k \in 0..n : g[k] = f[k]
    OBVIOUS
  <2>3. \A k \in 0..(n + 1) : g[k] = IF k = 0 THEN first ELSE Next1(g[k - 1], k)
    <3> SUFFICES ASSUME NEW k \in 0..(n + 1)
                 PROVE  g[k] = IF k = 0 THEN first ELSE Next1(g[k - 1], k)
      OBVIOUS
    <3>1. CASE k = n + 1
      <4>1. k # 0 /\ k - 1 = n /\ n \in 0..n
        BY <3>1
      <4> QED
        BY <3>1, <4>1, <2>2
    <3>2. CASE k \in 1..n
      <4>1. k # 0 /\ k - 1 \in 0..n /\ k \in 0..n
        BY <3>2
      <4>2. f[k] = Next1(f[k - 1], k)
        BY <4>1, <2>1
      <4> QED
        BY <4>1, <4>2, <2>2
    <3>3. CASE k = 0
      BY <3>3, <2>1, <2>2
    <3> QED
      BY <3>1, <3>2, <3>3
  <2>4. Is(g, n + 1)
    BY <2>3
  <2> HIDE DEF g, Is
  <2> QED
    BY <2>4
<1>3. \A n \in Nat : P[n]
  <2> HIDE DEF Is
  <2>1. P \in [Nat -> BOOLEAN]
    OBVIOUS
  <2> HIDE DEF P
  <2> QED
    BY <1>1, <1>2, <2>1, Induction
<1> DEFINE upto == ParsedUpto(withArgs, args)
<1>4. Is(upto, Len(args))
  <2>1. \E f : Is(f, Len(args))
    BY <1>3
  <2> HIDE DEF Is
  <2> QED
    BY <1>5, <2>1
<1>7. /\ upto[0] = first
      /\ \A k \in 1..Len(args) : upto[k] = Next1(upto[k - 1], k)
  <2> HIDE DEF upto
  <2> QED
    BY <1>4
<1> QED
  BY <1>6, <1>7 DEF first

ParsedState == [options : SUBSET STRING, positional : Nat, current : STRING \cup {Absent},
                ended : BOOLEAN]

LEMMA OptionNames ==
  ASSUME NEW s \in Seq(STRING), Len(s) > 0
  PROVE  /\ Last(s) \in STRING /\ ToSet(s) \subseteq STRING /\ ToSet(Front(s)) \subseteq STRING
         /\ ToSet(s) = ToSet(Front(s)) \cup {Last(s)}
         /\ Len(s) = 1 => ToSet(s) = {s[1]} /\ Last(s) = s[1]
<1>1. Len(s) \in Nat /\ DOMAIN s = 1..Len(s) /\ \A i \in 1..Len(s) : s[i] \in STRING
  BY LenProperties, ElementOfSeq
<1>2. Last(s) = s[Len(s)] /\ Len(s) \in 1..Len(s)
  BY <1>1 DEF Last
<1>3. /\ Front(s) \in Seq(STRING) /\ Len(Front(s)) = Len(s) - 1
      /\ \A i \in 1..(Len(s) - 1) : Front(s)[i] = s[i]
  BY FrontOfSeq
<1>4. DOMAIN Front(s) = 1..(Len(s) - 1)
  BY <1>3, LenProperties
<1>5. ToSet(s) = {s[i] : i \in 1..Len(s)}
  BY <1>1 DEF ToSet
<1>6. ToSet(Front(s)) = {s[i] : i \in 1..(Len(s) - 1)}
  BY <1>3, <1>4 DEF ToSet
<1>7. \A i : i \in 1..Len(s) <=> i \in 1..(Len(s) - 1) \/ i = Len(s)
  BY <1>1
<1> QED
  BY <1>1, <1>2, <1>5, <1>6, <1>7

LEMMA FormOK ==
  ASSUME NEW arg \in DOMAIN FormOf
  PROVE  /\ FormOf[arg].kind \in {"plain", "end", "long", "short"}
         /\ FormOf[arg].options \in Seq(STRING) /\ FormOf[arg].valued \in BOOLEAN
         /\ FormOf[arg].kind = "long" => Len(FormOf[arg].options) = 1
         /\ FormOf[arg].kind = "short" => Len(FormOf[arg].options) > 0 /\ ~FormOf[arg].valued
<1>1. FormOf[arg] \in [kind : {"plain", "end", "long", "short"}, options : Seq(STRING),
                       valued : BOOLEAN]
  BY FormsAssumption
<1> QED
  BY <1>1, FormsAssumption

\* What an argument does to what is known of the ones before it.
LEMMA ParsedArgOK ==
  ASSUME NEW withArgs, NEW st \in ParsedState, NEW arg \in DOMAIN FormOf
  PROVE  LET form == FormOf[arg]
             d    == ParsedArg(withArgs, st, arg)
         IN  /\ d \in ParsedState
             /\ d.ended <=> st.ended \/ form.kind = "end"
             /\ d.positional = IF st.ended \/ (form.kind = "plain" /\ st.current = Absent)
                               THEN st.positional + 1 ELSE st.positional
             /\ ~d.ended =>
                  d.current = IF Takes(withArgs, arg) THEN Last(form.options) ELSE Absent
             /\ st.options \subseteq d.options
             /\ st.current # Absent => st.current \in d.options \cup {d.current}
             /\ ~st.ended /\ form.kind \in {"long", "short"} =>
                  ToSet(form.options) \subseteq d.options \cup {d.current}
<1> DEFINE form == FormOf[arg]
           d == ParsedArg(withArgs, st, arg)
           took == IF st.current = Absent THEN st.options ELSE st.options \cup {st.current}
           flushed == IF st.current = Absent THEN st
                      ELSE [st EXCEPT !.options = @ \cup {st.current}, !.current = Absent]
           State(o, n, c, e) == [options |-> o, positional |-> n, current |-> c, ended |-> e]
<1>1. /\ form.kind \in {"plain", "end", "long", "short"} /\ form.valued \in BOOLEAN
      /\ form.options \in Seq(STRING)
      /\ form.kind = "long" => Len(form.options) = 1
      /\ form.kind = "short" => Len(form.options) > 0 /\ ~form.valued
  BY FormOK
<1>2. /\ st = State(st.options, st.positional, st.current, st.ended)
      /\ st.options \in SUBSET STRING /\ st.positional \in Nat /\ st.ended \in BOOLEAN
      /\ st.current \in STRING \cup {Absent}
  BY DEF ParsedState
<1>3. flushed = State(took, st.positional, Absent, st.ended)
  BY <1>2
<1>4. took \in SUBSET STRING /\ st.options \subseteq took
      /\ (st.current # Absent => st.current \in took)
  BY <1>2
<1>6. form.kind \in {"long", "short"} =>
        /\ Last(form.options) \in STRING /\ ToSet(form.options) \subseteq STRING
        /\ ToSet(Front(form.options)) \subseteq STRING
        /\ ToSet(form.options) = ToSet(Front(form.options)) \cup {Last(form.options)}
        /\ form.kind = "long" =>
             ToSet(form.options) = {form.options[1]} /\ Last(form.options) = form.options[1]
  BY <1>1, OptionNames
<1>7. Takes(withArgs, arg) <=> /\ form.kind \in {"long", "short"} /\ ~form.valued
                               /\ Last(form.options) \in withArgs
  BY DEF Takes
<1>8. d = CASE st.ended -> [st EXCEPT !.positional = @ + 1]
        [] ~st.ended /\ form.kind = "end" -> [st EXCEPT !.ended = TRUE]
        [] ~st.ended /\ form.kind = "long" ->
             IF ~form.valued /\ form.options[1] \in withArgs
             THEN [flushed EXCEPT !.current = form.options[1]]
             ELSE [flushed EXCEPT !.options = @ \cup {form.options[1]}]
        [] ~st.ended /\ form.kind = "short" ->
             IF Last(form.options) \in withArgs
             THEN [flushed EXCEPT !.options = @ \cup ToSet(Front(form.options)),
                                  !.current = Last(form.options)]
             ELSE [flushed EXCEPT !.options = @ \cup ToSet(form.options)]
        [] ~st.ended /\ form.kind = "plain" ->
             IF st.current # Absent THEN flushed
             ELSE [st EXCEPT !.positional = @ + 1]
  BY DEF ParsedArg
<1> SUFFICES
       /\ d \in ParsedState
       /\ d.ended <=> st.ended \/ form.kind = "end"
       /\ d.positional = IF st.ended \/ (form.kind = "plain" /\ st.current = Absent)
                         THEN st.positional + 1 ELSE st.positional
       /\ ~d.ended => d.current = IF Takes(withArgs, arg) THEN Last(form.options) ELSE Absent
       /\ st.options \subseteq d.options
       /\ st.current # Absent => st.current \in d.options \cup {d.current}
       /\ ~st.ended /\ form.kind \in {"long", "short"} =>
            ToSet(form.options) \subseteq d.options \cup {d.current}
  OBVIOUS
<1>9. \A o, c :
        /\ [st EXCEPT !.positional = @ + 1]
             = State(st.options, st.positional + 1, st.current, st.ended)
        /\ [st EXCEPT !.ended = TRUE] = State(st.options, st.positional, st.current, TRUE)
        /\ [flushed EXCEPT !.current = c] = State(took, st.positional, c, st.ended)
        /\ [flushed EXCEPT !.options = @ \cup o]
             = State(took \cup o, st.positional, Absent, st.ended)
        /\ [flushed EXCEPT !.options = @ \cup o, !.current = c]
             = State(took \cup o, st.positional, c, st.ended)
  <2> HIDE DEF flushed, took, form, d
  <2>1. flushed.options = took
    BY <1>3
  <2>2. \A m : [st EXCEPT !.positional = m] = State(st.options, m, st.current, st.ended)
    BY <1>2
  <2>3. \A m : [st EXCEPT !.ended = m] = State(st.options, st.positional, st.current, m)
    BY <1>2
  <2>4. \A m : [flushed EXCEPT !.current = m] = State(took, st.positional, m, st.ended)
    BY <1>3
  <2>5. \A m : [flushed EXCEPT !.options = m] = State(m, st.positional, Absent, st.ended)
    BY <1>3
  <2>6. \A m, l : [flushed EXCEPT !.options = m, !.current = l]
                    = State(m, st.positional, l, st.ended)
    <3> SUFFICES ASSUME NEW m, NEW l
                 PROVE  [flushed EXCEPT !.options = m, !.current = l]
                          = State(m, st.positional, l, st.ended)
      OBVIOUS
    <3> DEFINE half == [flushed EXCEPT !.options = m]
    <3>1. half = State(m, st.positional, Absent, st.ended)
      BY <2>5
    <3>2. [half EXCEPT !.current = l] = State(m, st.positional, l, st.ended)
      <4> HIDE DEF half
      <4> QED
        BY <3>1
    <3> QED
      BY <3>2
  <2> QED
    BY <2>1, <2>2, <2>3, <2>4, <2>5, <2>6
<1> HIDE DEF form, d, took, flushed
<1>10. CASE st.ended
  <2>1. d = State(st.options, st.positional + 1, st.current, TRUE)
    BY <1>2, <1>8, <1>9, <1>10
  <2>2. /\ d \in ParsedState /\ d.options = st.options /\ d.positional = st.positional + 1
        /\ d.current = st.current /\ d.ended = TRUE
    BY <1>2, <2>1 DEF ParsedState
  <2> QED
    BY <1>2, <1>10, <2>2
<1>11. CASE ~st.ended /\ form.kind = "end"
  <2>1. d = State(st.options, st.positional, st.current, TRUE)
    BY <1>8, <1>9, <1>11
  <2>2. /\ d \in ParsedState /\ d.options = st.options /\ d.positional = st.positional
        /\ d.current = st.current /\ d.ended = TRUE
    BY <1>2, <2>1 DEF ParsedState
  <2> QED
    BY <1>2, <1>11, <2>2
<1>12. CASE ~st.ended /\ form.kind = "long" /\ Takes(withArgs, arg)
  <2>1. d = State(took, st.positional, Last(form.options), FALSE)
    BY <1>2, <1>6, <1>7, <1>8, <1>9, <1>12
  <2>2. /\ d \in ParsedState /\ d.options = took /\ d.positional = st.positional
        /\ d.current = Last(form.options) /\ d.ended = FALSE
    BY <1>2, <1>4, <1>6, <1>12, <2>1 DEF ParsedState
  <2> QED
    BY <1>2, <1>4, <1>6, <1>12, <2>2
<1>13. CASE ~st.ended /\ form.kind = "long" /\ ~Takes(withArgs, arg)
  <2>1. d = State(took \cup {form.options[1]}, st.positional, Absent, FALSE)
    BY <1>2, <1>6, <1>7, <1>8, <1>9, <1>13
  <2>2. took \cup {form.options[1]} \in SUBSET STRING
    BY <1>4, <1>6, <1>13
  <2>3. /\ d \in ParsedState /\ d.options = took \cup {form.options[1]} /\ d.positional = st.positional
        /\ d.current = Absent /\ d.ended = FALSE
    BY <1>2, <2>1, <2>2 DEF ParsedState
  <2> QED
    BY <1>2, <1>4, <1>6, <1>13, <2>3
<1>14. CASE ~st.ended /\ form.kind = "short" /\ Takes(withArgs, arg)
  <2>1. d = State(took \cup ToSet(Front(form.options)), st.positional, Last(form.options), FALSE)
    BY <1>1, <1>2, <1>6, <1>7, <1>8, <1>9, <1>14
  <2>2. took \cup ToSet(Front(form.options)) \in SUBSET STRING
    BY <1>4, <1>6, <1>14
  <2>3. /\ d \in ParsedState /\ d.options = took \cup ToSet(Front(form.options)) /\ d.positional = st.positional
        /\ d.current = Last(form.options) /\ d.ended = FALSE
    BY <1>2, <1>6, <1>14, <2>1, <2>2 DEF ParsedState
  <2> QED
    BY <1>2, <1>4, <1>6, <1>14, <2>3
<1>15. CASE ~st.ended /\ form.kind = "short" /\ ~Takes(withArgs, arg)
  <2>1. d = State(took \cup ToSet(form.options), st.positional, Absent, FALSE)
    BY <1>1, <1>2, <1>6, <1>7, <1>8, <1>9, <1>15
  <2>2. took \cup ToSet(form.options) \in SUBSET STRING
    BY <1>4, <1>6, <1>15
  <2>3. /\ d \in ParsedState /\ d.options = took \cup ToSet(form.options) /\ d.positional = st.positional
        /\ d.current = Absent /\ d.ended = FALSE
    BY <1>2, <2>1, <2>2 DEF ParsedState
  <2> QED
    BY <1>2, <1>4, <1>6, <1>15, <2>3
<1>16. CASE ~st.ended /\ form.kind = "plain" /\ st.current = Absent
  <2>1. d = State(st.options, st.positional + 1, Absent, FALSE)
    BY <1>2, <1>8, <1>9, <1>16
  <2>2. /\ d \in ParsedState /\ d.options = st.options /\ d.positional = st.positional + 1
        /\ d.current = Absent /\ d.ended = FALSE
    BY <1>2, <2>1 DEF ParsedState
  <2> QED
    BY <1>2, <1>7, <1>16, <2>2
<1>17. CASE ~st.ended /\ form.kind = "plain" /\ st.current # Absent
  <2>1. d = State(took, st.positional, Absent, FALSE)
    BY <1>2, <1>3, <1>8, <1>17
  <2>2. /\ d \in ParsedState /\ d.options = took /\ d.positional = st.positional
        /\ d.current = Absent /\ d.ended = FALSE
    BY <1>2, <1>4, <2>1 DEF ParsedState
  <2> QED
    BY <1>2, <1>4, <1>7, <1>17, <2>2
<1> QED
  BY <1>1, <1>2, <1>10, <1>11, <1>12, <1>13, <1>14, <1>15, <1>16, <1>17

FilesUpto(withArgs, args, k) == {i \in 1..k : NamesFile(withArgs, args, i)}

\* What is known after k arguments, in terms of the arguments as they stand.
ParsedOK(withArgs, args, k, st) ==
  /\ st \in ParsedState
  /\ st.ended <=> Ended(args, k)
  /\ ~st.ended => st.current = IF k > 0 /\ Takes(withArgs, args[k])
                               THEN Last(FormOf[args[k]].options) ELSE Absent
  /\ IsFiniteSet(FilesUpto(withArgs, args, k))
  /\ st.positional = Cardinality(FilesUpto(withArgs, args, k))
  /\ \A i \in 1..k :
       ~Ended(args, i) /\ FormOf[args[i]].kind \in {"long", "short"} =>
         ToSet(FormOf[args[i]].options) \subseteq st.options \cup {st.current}

LEMMA ParsedFirst ==
  ASSUME NEW withArgs, NEW args
  PROVE  ParsedOK(withArgs, args, 0,
                  [options |-> {}, positional |-> 0, current |-> Absent, ended |-> FALSE])
<1>1. FilesUpto(withArgs, args, 0) = {} /\ ~Ended(args, 0)
  BY DEF FilesUpto, Ended
<1> QED
  BY <1>1, FS_EmptySet DEF ParsedOK, ParsedState

LEMMA OptionsNamed ==
  ASSUME NEW arg \in DOMAIN FormOf, FormOf[arg].kind \in {"long", "short"}
  PROVE  Absent \notin ToSet(FormOf[arg].options)
<1>1. FormOf[arg].options \in Seq(STRING) /\ Len(FormOf[arg].options) > 0
  BY FormOK
<1> QED
  BY <1>1, OptionNames, FormsAssumption

LEMMA TakesOK ==
  ASSUME NEW withArgs, NEW arg \in DOMAIN FormOf, Takes(withArgs, arg)
  PROVE  Last(FormOf[arg].options) # Absent
<1>1. FormOf[arg].options \in Seq(STRING)
  BY FormOK
<1>2. Len(FormOf[arg].options) > 0
  <2>1. FormOf[arg].kind \in {"long", "short"}
    BY DEF Takes
  <2>2. /\ FormOf[arg].kind = "long" => Len(FormOf[arg].options) = 1
        /\ FormOf[arg].kind = "short" => Len(FormOf[arg].options) > 0
    BY FormOK
  <2> QED
    BY <2>1, <2>2
<1> QED
  BY <1>1, <1>2, OptionNames, FormsAssumption

LEMMA ParsedNext ==
  ASSUME NEW withArgs, NEW args \in Seq(DOMAIN FormOf), NEW k \in Nat, k + 1 <= Len(args),
         NEW st, ParsedOK(withArgs, args, k, st)
  PROVE  ParsedOK(withArgs, args, k + 1, ParsedArg(withArgs, st, args[k + 1]))
<1> DEFINE n == k + 1
           arg == args[n]
           form == FormOf[arg]
           d == ParsedArg(withArgs, st, arg)
           Files(m) == FilesUpto(withArgs, args, m)
           Names(i) == NamesFile(withArgs, args, i)
<1>1. Len(args) \in Nat /\ n \in 1..Len(args) /\ n - 1 = k /\ (n > 1 <=> k > 0)
  BY LenProperties
<1>2. arg \in DOMAIN FormOf /\ (k > 0 => args[k] \in DOMAIN FormOf)
  BY <1>1, ElementOfSeq
<1>3. /\ st \in ParsedState
      /\ st.ended <=> Ended(args, k)
      /\ ~st.ended => st.current = IF k > 0 /\ Takes(withArgs, args[k])
                                   THEN Last(FormOf[args[k]].options) ELSE Absent
      /\ IsFiniteSet(Files(k)) /\ st.positional = Cardinality(Files(k))
  BY DEF ParsedOK
<1>4. /\ d \in ParsedState
      /\ d.ended <=> st.ended \/ form.kind = "end"
      /\ d.positional = IF st.ended \/ (form.kind = "plain" /\ st.current = Absent)
                        THEN st.positional + 1 ELSE st.positional
      /\ ~d.ended => d.current = IF Takes(withArgs, arg) THEN Last(form.options) ELSE Absent
      /\ st.options \subseteq d.options
      /\ st.current # Absent => st.current \in d.options \cup {d.current}
      /\ ~st.ended /\ form.kind \in {"long", "short"} =>
           ToSet(form.options) \subseteq d.options \cup {d.current}
  BY <1>2, <1>3, ParsedArgOK
<1>5. \A i : i \in 1..n <=> i \in 1..k \/ i = n
  OBVIOUS
<1>6. Ended(args, n) <=> Ended(args, k) \/ form.kind = "end"
  BY <1>5 DEF Ended
<1>7. d.ended <=> Ended(args, n)
  BY <1>3, <1>4, <1>6
<1>8. ~d.ended => d.current = IF n > 0 /\ Takes(withArgs, args[n])
                              THEN Last(FormOf[args[n]].options) ELSE Absent
  BY <1>1, <1>4
<1>9. ~Ended(args, k) => (Names(n) <=> form.kind = "plain" /\ st.current = Absent)
  <2>1. Names(n) <=> \/ Ended(args, k)
                     \/ /\ ~Ended(args, n) /\ form.kind = "plain"
                        /\ ~(k > 0 /\ Takes(withArgs, args[k]))
    BY <1>1 DEF NamesFile
  <2>2. ~Ended(args, k) => (st.current = Absent <=> ~(k > 0 /\ Takes(withArgs, args[k])))
    BY <1>2, <1>3, TakesOK
  <2> QED
    BY <1>6, <2>1, <2>2
<1>10. Ended(args, k) => Names(n)
  BY <1>1 DEF NamesFile
<1>11. Files(n) = IF Names(n) THEN Files(k) \cup {n} ELSE Files(k)
  BY <1>5 DEF FilesUpto
<1>12. n \notin Files(k)
  BY DEF FilesUpto
<1>13. IsFiniteSet(Files(n)) /\ d.positional = Cardinality(Files(n))
  <2>1. /\ IsFiniteSet(Files(k) \cup {n})
        /\ Cardinality(Files(k) \cup {n}) = Cardinality(Files(k)) + 1
    BY <1>3, <1>12, FS_AddElement
  <2>2. Names(n) <=> st.ended \/ (form.kind = "plain" /\ st.current = Absent)
    BY <1>3, <1>9, <1>10
  <2> HIDE DEF Names, Files, d, form
  <2> QED
    BY <1>3, <1>4, <1>11, <2>1, <2>2
<1>14. ASSUME NEW i \in 1..n, ~Ended(args, i), FormOf[args[i]].kind \in {"long", "short"}
       PROVE  ToSet(FormOf[args[i]].options) \subseteq d.options \cup {d.current}
  <2>1. CASE i = n
    BY <1>3, <1>4, <1>6, <1>14, <2>1
  <2>2. CASE i \in 1..k
    <3>1. ToSet(FormOf[args[i]].options) \subseteq st.options \cup {st.current}
      BY <1>14, <2>2 DEF ParsedOK
    <3>2. Absent \notin ToSet(FormOf[args[i]].options)
      <4>1. args[i] \in DOMAIN FormOf
        BY <1>1, <2>2, ElementOfSeq
      <4> QED
        BY <1>14, <4>1, OptionsNamed
    <3> HIDE DEF d
    <3> QED
      BY <1>4, <3>1, <3>2
  <2> QED
    BY <1>5, <2>1, <2>2
<1> QED
  <2> HIDE DEF d
  <2>1. ParsedOK(withArgs, args, n, d)
    BY <1>4, <1>7, <1>8, <1>13, <1>14 DEF ParsedOK
  <2> QED
    BY <2>1 DEF d

\* Of a line of arguments, what is found out about its options and its files.
LEMMA ParsedArgsOK ==
  ASSUME NEW withArgs, NEW args \in Seq(DOMAIN FormOf)
  PROVE  /\ ParsedArgs(withArgs, args).positional = FilesNamed(withArgs, args)
         /\ \A i \in 1..Len(args) :
              ~Ended(args, i) /\ FormOf[args[i]].kind \in {"long", "short"} =>
                ToSet(FormOf[args[i]].options) \subseteq ParsedArgs(withArgs, args).options
<1> DEFINE upto == ParsedUpto(withArgs, args)
           st == upto[Len(args)]
           OK(n) == n <= Len(args) => ParsedOK(withArgs, args, n, upto[n])
           P == [n \in Nat |-> OK(n)]
<1>1. Len(args) \in Nat /\ DOMAIN args = 1..Len(args)
  BY LenProperties
<1>2. /\ upto[0] = [options |-> {}, positional |-> 0, current |-> Absent, ended |-> FALSE]
      /\ \A k \in 1..Len(args) : upto[k] = ParsedArg(withArgs, upto[k - 1], args[k])
  BY <1>1, ParsedUptoDef
<1>3. /\ ParsedArgs(withArgs, args).positional = st.positional
      /\ ParsedArgs(withArgs, args).options = st.options \cup ({st.current} \ {Absent})
  BY DEF ParsedArgs
<1> HIDE DEF upto
<1>4. OK(0)
  BY <1>2, ParsedFirst
<1>5. ASSUME NEW n \in Nat, OK(n)
      PROVE  OK(n + 1)
  <2> SUFFICES ASSUME n + 1 <= Len(args)
               PROVE  ParsedOK(withArgs, args, n + 1, upto[n + 1])
    OBVIOUS
  <2>1. n + 1 \in 1..Len(args) /\ n + 1 - 1 = n /\ n <= Len(args)
    BY <1>1
  <2>2. upto[n + 1] = ParsedArg(withArgs, upto[n], args[n + 1])
    BY <1>2, <2>1
  <2>3. ParsedOK(withArgs, args, n, upto[n])
    BY <1>5, <2>1
  <2> QED
    BY <2>2, <2>3, ParsedNext
<1>6. P \in [Nat -> BOOLEAN]
  BY DEF ParsedOK
<1> HIDE DEF OK
<1>7. \A n \in Nat : P[n]
  <2>1. P[0] /\ \A n \in Nat : P[n] => P[n + 1]
    BY <1>4, <1>5
  <2> HIDE DEF P
  <2> QED
    BY <1>6, <2>1, Induction
<1>8. ParsedOK(withArgs, args, Len(args), st)
  <2>1. OK(Len(args))
    BY <1>1, <1>7
  <2> QED
    BY <1>1, <2>1 DEF OK
<1> HIDE DEF st
<1>9. FilesNamed(withArgs, args) = Cardinality(FilesUpto(withArgs, args, Len(args)))
  BY <1>1 DEF FilesNamed, FilesUpto
<1>10. ASSUME NEW i \in 1..Len(args), ~Ended(args, i), FormOf[args[i]].kind \in {"long", "short"}
       PROVE  ToSet(FormOf[args[i]].options) \subseteq ParsedArgs(withArgs, args).options
  <2>1. ToSet(FormOf[args[i]].options) \subseteq st.options \cup {st.current}
    BY <1>8, <1>10 DEF ParsedOK
  <2>2. Absent \notin ToSet(FormOf[args[i]].options)
    <3>1. args[i] \in DOMAIN FormOf
      BY <1>1, ElementOfSeq
    <3> QED
      BY <1>10, <3>1, OptionsNamed
  <2> QED
    BY <1>3, <2>1, <2>2
<1>11. ParsedArgs(withArgs, args).positional = FilesNamed(withArgs, args)
  BY <1>3, <1>8, <1>9 DEF ParsedOK
<1> QED
  BY <1>10, <1>11

\* What is run was not refused, and there is never a command to run again.
CommandInv ==
  /\ lastCommand = Absent
  /\ ran # Absent => ran \in CommandLines /\ Refusal(ran) = "none"

LEMMA CommandAccepted ==
  ASSUME NEW line \in CommandLines, Refusal(line) = "none", line.nodes # Absent,
         NEW i \in DOMAIN line.nodes, TokensOf(line.nodes[i]) # <<>>
  PROVE  LET command == TokensOf(line.nodes[i])
         IN  /\ ~ExplicitlyDisallowed(command) /\ CommandAllowed(command)
             /\ Validated(command)
<1> DEFINE command == TokensOf(line.nodes[i])
           parsed == NonEmpty({TokensOf(line.nodes[j]) : j \in DOMAIN line.nodes})
<1>1. command \in parsed
  BY DEF NonEmpty
<1>2. CommandsOf(line) = parsed
  BY <1>1 DEF CommandsOf
<1> HIDE DEF parsed, command
<1>3. /\ ~\E c \in parsed : ExplicitlyDisallowed(c)
      /\ ~\E c \in parsed : ~CommandAllowed(c)
      /\ ~\E c \in parsed : ~Validated(c)
  BY <1>2 DEF Refusal
<1>4. ~ExplicitlyDisallowed(command) /\ CommandAllowed(command) /\ Validated(command)
  BY <1>1, <1>3
<1> QED
  BY <1>4 DEF command

LEMMA CommandInvAllowed == CommandInv => OnlyAllowedRun
<1> SUFFICES ASSUME CommandInv, ran # Absent, ran.nodes # Absent,
                    NEW i \in DOMAIN ran.nodes, TokensOf(ran.nodes[i]) # <<>>
             PROVE  LET command == TokensOf(ran.nodes[i])
                    IN  /\ ~ExplicitlyDisallowed(command) /\ CommandAllowed(command)
                        /\ command[1] \in DOMAIN OptionsWithArgs =>
                             /\ FilesNamed(OptionsWithArgs[command[1]], Tail(command))
                                  <= MaxFiles[command[1]]
                             /\ \A j \in 2..Len(command) :
                                  FormOf[command[j]].kind \in {"long", "short"} =>
                                    \/ ToSet(FormOf[command[j]].options)
                                         \cap DisallowedOptions[command[1]] = {}
                                    \/ Ended(Tail(command), j - 2)
  BY DEF OnlyAllowedRun
<1> DEFINE command == TokensOf(ran.nodes[i])
           args == Tail(command)
           withArgs == OptionsWithArgs[command[1]]
<1>1. ran \in CommandLines /\ Refusal(ran) = "none"
  BY DEF CommandInv
<1>2. ~ExplicitlyDisallowed(command) /\ CommandAllowed(command) /\ Validated(command)
  BY <1>1, CommandAccepted
<1>3. command \in Seq(DOMAIN FormOf)
  <2>1. ran.nodes \in Seq(Seq([type : STRING, text : DOMAIN FormOf]))
    BY <1>1, FormsAssumption
  <2>2. ran.nodes[i] \in Seq([type : STRING, text : DOMAIN FormOf])
    BY <2>1, LenProperties, ElementOfSeq
  <2> QED
    BY <2>2, TokensOfOK
<1>4. command # <<>>
  OBVIOUS
<1> HIDE DEF command
<1>5. /\ args \in Seq(DOMAIN FormOf) /\ Len(args) = Len(command) - 1 /\ Len(command) \in Nat
      /\ \A j \in 1..Len(args) : args[j] = command[j + 1]
  BY <1>3, <1>4, HeadTailProperties
<1>6. /\ ArgsOf(command).positional = FilesNamed(withArgs, args)
      /\ \A j \in 1..Len(args) :
           ~Ended(args, j) /\ FormOf[args[j]].kind \in {"long", "short"} =>
             ToSet(FormOf[args[j]].options) \subseteq ArgsOf(command).options
  BY <1>5, ParsedArgsOK DEF ArgsOf
<1>7. ASSUME command[1] \in DOMAIN OptionsWithArgs
      PROVE  /\ FilesNamed(withArgs, args) <= MaxFiles[command[1]]
             /\ ArgsOf(command).options \cap DisallowedOptions[command[1]] = {}
  BY <1>2, <1>6, <1>7 DEF Validated, OptionsAccepted, FilesAccepted
<1> HIDE DEF args, withArgs
<1>8. ASSUME command[1] \in DOMAIN OptionsWithArgs, NEW j \in 2..Len(command),
             FormOf[command[j]].kind \in {"long", "short"}, ~Ended(args, j - 2)
      PROVE  ToSet(FormOf[command[j]].options) \cap DisallowedOptions[command[1]] = {}
  <2>1. j - 1 \in 1..Len(args) /\ args[j - 1] = command[j]
    BY <1>5
  <2>2. \A m : m \in 1..(j - 1) <=> m \in 1..(j - 2) \/ m = j - 1
    BY <1>5
  <2>3. ~Ended(args, j - 1)
    BY <1>8, <2>1, <2>2 DEF Ended
  <2>4. ToSet(FormOf[command[j]].options) \subseteq ArgsOf(command).options
    BY <1>6, <1>8, <2>1, <2>3
  <2> QED
    BY <1>7, <1>8, <2>4
<1> QED
  BY <1>2, <1>7, <1>8 DEF args, withArgs, command

\* For all grammars, rules and command lines: a line is run only if every command in it
\* may be, whatever it is made of and wherever its options stand.
THEOREM CommandTheorem == ToolsSpec => []OnlyAllowedRun
<1>1. ToolsInit => CommandInv
  BY DEF ToolsInit, CommandInit, CommandInv
<1>2. ASSUME CommandInv, [ToolsNext]_<<fileVars, memVars, commandVars, tool>>
      PROVE  CommandInv'
  <2>1. CASE UNCHANGED commandVars
    BY <1>2, <2>1 DEF commandVars, CommandInv, Refusal
  <2>2. CASE CommandNext
    <3>1. CASE Restart
      <4>1. UNCHANGED <<ran, lastCommand>>
        BY <1>2, <3>1 DEF Restart, CommandInv
      <4> QED
        BY <1>2, <4>1 DEF CommandInv, Refusal
    <3>2. ASSUME NEW line \in CommandLines, RunCommand(line)
          PROVE  CommandInv'
      <4>1. CASE Refusal(line) # "none"
        <5>1. UNCHANGED <<ran, lastCommand>>
          BY <3>2, <4>1 DEF RunCommand
        <5> QED
          BY <1>2, <5>1 DEF CommandInv, Refusal
      <4>2. CASE Refusal(line) = "none"
        <5>1. ran' = line /\ lastCommand' = lastCommand
          BY <3>2, <4>2 DEF RunCommand
        <5> QED
          BY <1>2, <4>2, <5>1 DEF CommandInv
      <4> QED
        BY <4>1, <4>2
    <3> QED
      BY <2>2, <3>1, <3>2 DEF CommandNext
  <2> QED
    BY <1>2, <2>1, <2>2 DEF ToolsNext
<1> QED
  BY <1>1, <1>2, CommandInvAllowed, PTL DEF ToolsSpec
====
