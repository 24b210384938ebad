------------------------ MODULE PkgResourcesProofs -------------------------
(* What a call of get_resource_filename returned stays usable, for every set of    *)
(* processes and every archive (EggCache); and the offsets of named results stay   *)
(* exact, for every set of tokens and names (ParseResults).                        *)
EXTENDS EggCache, ParseResults, SequenceTheorems, TLAPS

CacheTypeOK ==
  /\ nt \in BOOLEAN /\ short \in BOOLEAN
  /\ egg \in [Procs -> Eggs]
  /\ real \in [Files -> {"none", "part"} \cup Eggs]
  /\ tmp \in [Procs -> {"none", "part"} \cup Eggs]
  /\ todo \in [Procs -> Seq(Files)]
  /\ promised \in [Procs -> SUBSET Files]
  /\ cpc \in [Procs -> {"idle", "check", "write", "rename", "retry", "unlink", "again", "failed", "gone"}]
  /\ calls \in Nat

\* a call that runs has a file to extract; one that returned has none
TodoFits(p) ==
  /\ cpc[p] \in {"check", "write", "rename", "retry", "unlink", "again"} => todo[p] # <<>>
  /\ cpc[p] = "idle" => todo[p] = <<>>

\* what is about to be renamed is the whole file
TempWhole(p) == cpc[p] \in {"rename", "retry", "unlink", "again"} => tmp[p] = egg[p]

\* where files can be renamed over, nothing is tried twice and nothing removed
NoSecondTry(p) == ~nt => cpc[p] \notin {"retry", "unlink", "again", "failed"}

\* a file that was promised is there, or the call has still to extract it
PromiseKept(p) ==
  (cpc[p] # "gone" /\ ~nt /\ \A q \in Procs : egg[q] = egg[p]) =>
     \A f \in promised[p] : real[f] = egg[p] \/ f \in Range(todo[p])

CacheInv ==
  /\ \A p \in Procs : TodoFits(p) /\ NoSecondTry(p)
  /\ ~short => NoTornFile /\ \A p \in Procs : TempWhole(p) /\ PromiseKept(p)

-----------------------------------------------------------------------------
\* A process has its next file and what comes after it.
LEMMA NextFile ==
  ASSUME NEW S, NEW s \in Seq(S), s # <<>>
  PROVE  /\ Head(s) \in S /\ Tail(s) \in Seq(S) /\ Len(s) \in Nat
         /\ Len(s) = 1 <=> Tail(s) = <<>>
         /\ Range(s) = {Head(s)} \cup Range(Tail(s))
<1>1. Head(s) \in S /\ Tail(s) \in Seq(S) /\ Len(s) \in Nat /\ Len(s) > 0 OBVIOUS
<1>2. Len(s) = 1 <=> Tail(s) = <<>>
  <2>1. Len(Tail(s)) = Len(s) - 1 BY <1>1
  <2>2. Tail(s) = <<>> <=> Len(Tail(s)) = 0 BY <1>1, EmptySeq
  <2> QED BY <1>1, <2>1, <2>2
<1>3. Range(s) = {Head(s)} \cup Range(Tail(s))
  <2>1. \A x \in Range(s) : x \in {Head(s)} \cup Range(Tail(s))
    <3> SUFFICES ASSUME NEW i \in 1..Len(s), i # 1 PROVE s[i] \in Range(Tail(s))
      BY <1>1 DEF Range
    <3>1. i - 1 \in 1..Len(Tail(s)) /\ Tail(s)[i - 1] = s[i] BY <1>1
    <3>2. DOMAIN Tail(s) = 1..Len(Tail(s)) BY <1>1
    <3> QED BY <3>1, <3>2, Zenon DEF Range
  <2>2. \A x \in Range(Tail(s)) : x \in Range(s)
    <3> SUFFICES ASSUME NEW i \in 1..Len(Tail(s)) PROVE Tail(s)[i] \in Range(s)
      BY <1>1 DEF Range
    <3>1. i + 1 \in 1..Len(s) /\ Tail(s)[i] = s[i + 1] BY <1>1
    <3> QED BY <3>1 DEF Range
  <2>3. Head(s) \in Range(s) BY <1>1 DEF Range
  <2> QED BY <2>1, <2>2, <2>3
<1> QED BY <1>1, <1>2, <1>3

\* What a call of get_resource_filename extracts are files of the archive, at least one.
LEMMA Extracts ==
  ASSUME NEW r \in Resources
  PROVE  LET files == (IF Contains(Eager, r) THEN Eager ELSE <<>>) \o Expand[r]
         IN  files \in Seq(Files) /\ files # <<>> /\ Range(files) \subseteq Files
<1> DEFINE e == IF Contains(Eager, r) THEN Eager ELSE <<>>
           x == Expand[r]
<1>1. e \in Seq(Files) /\ x \in Seq(Files) /\ x # <<>> BY CacheAssumption
<1> HIDE DEF e, x
<1>2. e \o x \in Seq(Files) /\ e \o x # <<>> BY <1>1
<1>3. Range(e \o x) \subseteq Files BY <1>2 DEF Range
<1> QED BY <1>2, <1>3 DEF e, x

-----------------------------------------------------------------------------
LEMMA CacheTypeInit == CacheInit => CacheTypeOK
<1> SUFFICES ASSUME CacheInit PROVE CacheTypeOK OBVIOUS
<1>1. <<>> \in Seq(Files) OBVIOUS
<1>2. /\ todo \in [Procs -> Seq(Files)] /\ promised \in [Procs -> SUBSET Files]
      /\ cpc \in [Procs -> {"idle", "check", "write", "rename", "retry", "unlink", "again", "failed", "gone"}]
  BY <1>1 DEF CacheInit
<1>3. /\ nt \in BOOLEAN /\ short \in BOOLEAN /\ egg \in [Procs -> Eggs] /\ calls \in Nat
      /\ real \in [Files -> {"none", "part"} \cup Eggs] /\ tmp \in [Procs -> {"none", "part"} \cup Eggs]
  BY DEF CacheInit
<1> QED BY <1>2, <1>3 DEF CacheTypeOK

LEMMA CacheTypeStep == CacheTypeOK /\ (\A p \in Procs : TodoFits(p)) /\ [CacheNext]_cacheVars => CacheTypeOK'
<1> SUFFICES ASSUME CacheTypeOK, \A p \in Procs : TodoFits(p), [CacheNext]_cacheVars PROVE CacheTypeOK'
  OBVIOUS
<1> USE DEF CacheTypeOK
<1>1. ASSUME NEW p \in Procs, NEW r \in Resources, get_resource_filename(p, r) PROVE CacheTypeOK'
  <2> DEFINE files == (IF Contains(Eager, r) THEN Eager ELSE <<>>) \o Expand[r]
  <2>1. files \in Seq(Files) /\ Range(files) \subseteq Files BY Extracts
  <2>2. /\ todo' = [todo EXCEPT ![p] = files] /\ promised' = [promised EXCEPT ![p] = Range(files)]
        /\ calls' = calls + 1 /\ cpc' = [cpc EXCEPT ![p] = "check"]
        /\ UNCHANGED <<nt, egg, real, tmp, short>>
    BY <1>1 DEF get_resource_filename
  <2> HIDE DEF files
  <2> QED BY <2>1, <2>2
<1>2. ASSUME NEW p \in Procs, CheckCache(p) \/ Retry(p) PROVE CacheTypeOK'
  <2>1. \/ Extracted(p)
        \/ todo' = todo /\ \E v \in {"write", "failed", "unlink"} : cpc' = [cpc EXCEPT ![p] = v]
    BY <1>2 DEF CheckCache, Retry
  <2>2. UNCHANGED <<nt, egg, real, tmp, promised, calls, short>> BY <1>2 DEF CheckCache, Retry
  <2>3. todo[p] \in Seq(Files) /\ todo[p] # <<>> BY <1>2 DEF CheckCache, Retry, TodoFits
  <2>4. Tail(todo[p]) \in Seq(Files) BY <2>3, NextFile
  <2>5. todo' \in [Procs -> Seq(Files)] BY <2>1, <2>4 DEF Extracted
  <2>6. cpc' \in [Procs -> {"idle", "check", "write", "rename", "retry", "unlink", "again", "failed", "gone"}]
    BY <2>1 DEF Extracted
  <2> QED BY <2>2, <2>5, <2>6
<1>3. ASSUME NEW p \in Procs, Rename(p) PROVE CacheTypeOK'
  <2>1. todo[p] \in Seq(Files) /\ todo[p] # <<>> BY <1>3 DEF Rename, TodoFits
  <2>2. At(p) \in Files /\ Tail(todo[p]) \in Seq(Files) BY <2>1, NextFile DEF At
  <2>3. UNCHANGED <<nt, egg, promised, calls, short>> BY <1>3 DEF Rename
  <2>4. todo' \in [Procs -> Seq(Files)] BY <1>3, <2>2 DEF Rename, Extracted
  <2>5. cpc' \in [Procs -> {"idle", "check", "write", "rename", "retry", "unlink", "again", "failed", "gone"}]
    BY <1>3 DEF Rename, Extracted
  <2>6. real' \in [Files -> {"none", "part"} \cup Eggs] /\ tmp' \in [Procs -> {"none", "part"} \cup Eggs]
    BY <1>3, <2>2 DEF Rename
  <2> QED BY <2>3, <2>4, <2>5, <2>6
<1>4. ASSUME NEW p \in Procs, WriteTemp(p) \/ Crash(p) PROVE CacheTypeOK'
  BY <1>4 DEF WriteTemp, Crash
<1>5. ASSUME NEW p \in Procs, Unlink(p) PROVE CacheTypeOK'
  <2>1. todo[p] \in Seq(Files) /\ todo[p] # <<>> BY <1>5 DEF Unlink, TodoFits
  <2>2. At(p) \in Files BY <2>1, NextFile DEF At
  <2> QED BY <1>5, <2>2 DEF Unlink
<1>6. CASE UNCHANGED cacheVars BY <1>6 DEF cacheVars
<1> QED BY <1>1, <1>2, <1>3, <1>4, <1>5, <1>6 DEF CacheNext

-----------------------------------------------------------------------------
\* What a step of one process leaves to the others: their calls, and where files are whole
\* and renamed over, what they were promised.
LEMMA OthersKept ==
  ASSUME CacheTypeOK, CacheInv, NEW p \in Procs, NEW q \in Procs, q # p,
         UNCHANGED <<nt, egg>>, todo'[q] = todo[q], promised'[q] = promised[q], cpc'[q] = cpc[q],
         tmp'[q] = tmp[q], ~short' => ~short,
         \/ real' = real
         \/ nt
         \/ \E f \in Files : real' = [real EXCEPT ![f] = egg[p]]
         \/ short
  PROVE  TodoFits(q)' /\ NoSecondTry(q)' /\ (~short' => TempWhole(q)' /\ PromiseKept(q)')
<1>1. TodoFits(q)' /\ NoSecondTry(q)' BY DEF CacheInv, TodoFits, NoSecondTry
<1>2. ASSUME ~short' PROVE TempWhole(q)' BY <1>2 DEF CacheInv, TempWhole
<1>3. ASSUME ~short' PROVE PromiseKept(q)'
  <2> SUFFICES ASSUME cpc[q] # "gone", ~nt, \A r \in Procs : egg[r] = egg[q], NEW f \in promised[q]
               PROVE real'[f] = egg[q] \/ f \in Range(todo[q])
    BY DEF PromiseKept
  <2>1. real[f] = egg[q] \/ f \in Range(todo[q]) BY <1>3 DEF CacheInv, PromiseKept
  <2>2. f \in Files BY DEF CacheTypeOK
  <2>3. egg[p] = egg[q] OBVIOUS
  <2>4. real' = real \/ \E g \in Files : real' = [real EXCEPT ![g] = egg[p]] BY <1>3
  <2>5. real'[f] = real[f] \/ real'[f] = egg[q] BY <2>2, <2>3, <2>4 DEF CacheTypeOK
  <2> QED BY <2>1, <2>5
<1> QED BY <1>1, <1>2, <1>3

\* The file a process was extracting is there: the call goes on to the next one.
LEMMA ExtractedKeeps ==
  ASSUME CacheTypeOK, CacheInv, NEW p \in Procs, todo[p] # <<>>, Extracted(p),
         UNCHANGED <<nt, egg, promised, short>>,
         cpc[p] \in {"check", "rename", "retry", "again"},
         ~short => real'[At(p)] = egg[p],
         \A f \in Files : f # At(p) => real'[f] = real[f]
  PROVE  TodoFits(p)' /\ NoSecondTry(p)' /\ (~short' => TempWhole(p)' /\ PromiseKept(p)')
<1>1. /\ todo'[p] = Tail(todo[p])
      /\ cpc'[p] = IF Len(todo[p]) = 1 THEN "idle" ELSE "check"
  BY DEF Extracted, CacheTypeOK
<1>2. todo[p] \in Seq(Files) BY DEF CacheTypeOK
<1>3. /\ Len(todo[p]) = 1 <=> Tail(todo[p]) = <<>>
      /\ Range(todo[p]) = {At(p)} \cup Range(Tail(todo[p]))
  BY <1>2, NextFile DEF At
<1>4. TodoFits(p)' BY <1>1, <1>3 DEF TodoFits
<1>5. NoSecondTry(p)' /\ TempWhole(p)' BY <1>1 DEF NoSecondTry, TempWhole
<1>6. ASSUME ~short' PROVE PromiseKept(p)'
  <2> SUFFICES ASSUME ~nt, \A r \in Procs : egg[r] = egg[p], NEW f \in promised[p]
               PROVE real'[f] = egg[p] \/ f \in Range(Tail(todo[p]))
    BY <1>1 DEF PromiseKept
  <2>1. cpc[p] # "gone" OBVIOUS
  <2>2. real[f] = egg[p] \/ f \in Range(todo[p]) BY <1>6, <2>1 DEF CacheInv, PromiseKept
  <2>3. f \in Files BY DEF CacheTypeOK
  <2>4. CASE f = At(p) BY <1>6, <2>4
  <2>5. CASE f # At(p) BY <2>5, <2>2, <2>3, <1>3
  <2> QED BY <2>4, <2>5
<1> QED BY <1>4, <1>5, <1>6

\* No step of the others or of the process itself breaks the parts of CacheInv that are
\* about processes; files stay whole.
LEMMA CacheInvFromParts ==
  ASSUME NEW p \in Procs,
         \A q \in Procs : q # p => TodoFits(q)' /\ NoSecondTry(q)' /\ (~short' => TempWhole(q)' /\ PromiseKept(q)'),
         TodoFits(p)' /\ NoSecondTry(p)' /\ (~short' => TempWhole(p)' /\ PromiseKept(p)'),
         ~short' => NoTornFile'
  PROVE  CacheInv'
BY DEF CacheInv

LEMMA CacheInvInit == CacheInit => CacheInv
<1> SUFFICES ASSUME CacheInit PROVE CacheInv OBVIOUS
<1>1. NoTornFile BY CacheAssumption DEF CacheInit, NoTornFile
<1>2. ASSUME NEW p \in Procs PROVE TodoFits(p) /\ NoSecondTry(p) /\ TempWhole(p) /\ PromiseKept(p)
  BY DEF CacheInit, TodoFits, NoSecondTry, TempWhole, PromiseKept
<1> QED BY <1>1, <1>2 DEF CacheInv

LEMMA AskKeeps ==
  ASSUME CacheTypeOK, CacheInv, NEW p \in Procs, NEW r \in Resources, get_resource_filename(p, r)
  PROVE  CacheInv'
<1> DEFINE files == (IF Contains(Eager, r) THEN Eager ELSE <<>>) \o Expand[r]
<1>1. files # <<>> BY Extracts
<1>2. /\ todo' = [todo EXCEPT ![p] = files] /\ promised' = [promised EXCEPT ![p] = Range(files)]
      /\ cpc' = [cpc EXCEPT ![p] = "check"] /\ UNCHANGED <<nt, egg, real, tmp, short>>
  BY DEF get_resource_filename
<1> HIDE DEF files
<1>3. todo'[p] = files /\ promised'[p] = Range(files) /\ cpc'[p] = "check" BY <1>2 DEF CacheTypeOK
<1>4. ASSUME NEW q \in Procs, q # p
      PROVE  todo'[q] = todo[q] /\ promised'[q] = promised[q] /\ cpc'[q] = cpc[q] /\ tmp'[q] = tmp[q]
  BY <1>2, <1>4 DEF CacheTypeOK
<1>5. ~short' => NoTornFile' BY <1>2 DEF CacheInv, NoTornFile
<1>6. TodoFits(p)' /\ NoSecondTry(p)' /\ TempWhole(p)' /\ PromiseKept(p)'
  BY <1>1, <1>3 DEF TodoFits, NoSecondTry, TempWhole, PromiseKept
<1> QED BY <1>2, <1>4, <1>5, <1>6, OthersKept, CacheInvFromParts

LEMMA CheckKeeps ==
  ASSUME CacheTypeOK, CacheInv, NEW p \in Procs, CheckCache(p) \/ Retry(p)
  PROVE  CacheInv'
<1>1. UNCHANGED <<nt, egg, real, tmp, promised, short>> BY DEF CheckCache, Retry
<1>2. cpc[p] \in {"check", "retry"} /\ todo[p] # <<>> BY DEF CheckCache, Retry, CacheInv, TodoFits
<1>3. \/ Extracted(p) /\ Current(p)
      \/ todo' = todo /\ cpc[p] = "check" /\ cpc' = [cpc EXCEPT ![p] = "write"]
      \/ todo' = todo /\ cpc[p] = "retry" /\ \E v \in {"failed", "unlink"} : cpc' = [cpc EXCEPT ![p] = v]
  BY DEF CheckCache, Retry
<1>4. ASSUME NEW q \in Procs, q # p
      PROVE  todo'[q] = todo[q] /\ cpc'[q] = cpc[q]
  BY <1>3, <1>4 DEF CacheTypeOK, Extracted
<1>5. ~short' => NoTornFile' BY <1>1 DEF CacheInv, NoTornFile
<1>6. TodoFits(p)' /\ NoSecondTry(p)' /\ (~short' => TempWhole(p)' /\ PromiseKept(p)')
  <2>1. CASE Extracted(p) /\ Current(p)
    BY <2>1, <1>1, <1>2, ExtractedKeeps DEF Current
  <2>2. CASE todo' = todo /\ cpc[p] = "check" /\ cpc' = [cpc EXCEPT ![p] = "write"]
    <3>1. cpc'[p] = "write" BY <2>2 DEF CacheTypeOK
    <3> QED BY <3>1, <2>2, <1>1 DEF CacheInv, TodoFits, NoSecondTry, TempWhole, PromiseKept
  <2>3. CASE todo' = todo /\ cpc[p] = "retry" /\ \E v \in {"failed", "unlink"} : cpc' = [cpc EXCEPT ![p] = v]
    <3>1. cpc'[p] \in {"failed", "unlink"} BY <2>3 DEF CacheTypeOK
    <3>2. nt BY <2>3 DEF CacheInv, NoSecondTry
    <3> QED BY <3>1, <3>2, <2>3, <1>1 DEF CacheInv, TodoFits, NoSecondTry, TempWhole, PromiseKept
  <2> QED BY <1>3, <2>1, <2>2, <2>3
<1> QED BY <1>1, <1>4, <1>5, <1>6, OthersKept, CacheInvFromParts

LEMMA WriteKeeps ==
  ASSUME CacheTypeOK, CacheInv, NEW p \in Procs, WriteTemp(p)
  PROVE  CacheInv'
<1>1. /\ UNCHANGED <<nt, egg, real, todo, promised>> /\ cpc[p] = "write"
      /\ cpc' = [cpc EXCEPT ![p] = "rename"] /\ todo[p] # <<>>
  BY DEF WriteTemp, CacheInv, TodoFits
<1>2. ~short' => ~short /\ tmp'[p] = egg[p] BY DEF WriteTemp, CacheTypeOK
<1>3. cpc'[p] = "rename" BY <1>1 DEF CacheTypeOK
<1>4. ASSUME NEW q \in Procs, q # p PROVE cpc'[q] = cpc[q] /\ tmp'[q] = tmp[q]
  BY <1>4 DEF WriteTemp, CacheTypeOK
<1>5. ~short' => NoTornFile' BY <1>1, <1>2 DEF CacheInv, NoTornFile
<1>6. TodoFits(p)' /\ NoSecondTry(p)' /\ (~short' => TempWhole(p)' /\ PromiseKept(p)')
  BY <1>1, <1>2, <1>3 DEF CacheInv, TodoFits, NoSecondTry, TempWhole, PromiseKept
<1> QED BY <1>1, <1>2, <1>4, <1>5, <1>6, OthersKept, CacheInvFromParts

LEMMA RenameKeeps ==
  ASSUME CacheTypeOK, CacheInv, NEW p \in Procs, Rename(p)
  PROVE  CacheInv'
<1>1. UNCHANGED <<nt, egg, promised, short>> /\ cpc[p] \in {"rename", "again"} /\ todo[p] # <<>>
  BY DEF Rename, CacheInv, TodoFits
<1>2. At(p) \in Files
  <2>1. todo[p] \in Seq(Files) BY DEF CacheTypeOK
  <2> QED BY <2>1, <1>1, NextFile DEF At
<1>3. CASE nt /\ real[At(p)] # "none"
  <2>1. UNCHANGED <<real, tmp, todo>> /\ \E v \in {"retry", "failed"} : cpc' = [cpc EXCEPT ![p] = v]
    BY <1>3 DEF Rename
  <2>2. cpc'[p] \in {"retry", "failed"} BY <2>1 DEF CacheTypeOK
  <2>3. ASSUME NEW q \in Procs, q # p PROVE cpc'[q] = cpc[q] BY <2>1, <2>3 DEF CacheTypeOK
  <2>4. ~short' => NoTornFile' BY <1>1, <2>1 DEF CacheInv, NoTornFile
  <2>5. TodoFits(p)' /\ NoSecondTry(p)' /\ (~short' => TempWhole(p)' /\ PromiseKept(p)')
    BY <1>1, <1>3, <2>1, <2>2 DEF CacheInv, TodoFits, NoSecondTry, TempWhole, PromiseKept
  <2> QED BY <1>1, <2>1, <2>3, <2>4, <2>5, OthersKept, CacheInvFromParts
<1>4. CASE ~(nt /\ real[At(p)] # "none")
  <2>1. /\ real' = [real EXCEPT ![At(p)] = tmp[p]] /\ tmp' = [tmp EXCEPT ![p] = "none"] /\ Extracted(p)
    BY <1>4 DEF Rename
  <2>2. ~short => tmp[p] = egg[p] BY <1>1 DEF CacheInv, TempWhole
  <2>3. ASSUME NEW q \in Procs, q # p PROVE todo'[q] = todo[q] /\ cpc'[q] = cpc[q] /\ tmp'[q] = tmp[q]
    BY <2>1, <2>3 DEF CacheTypeOK, Extracted
  <2>4. real'[At(p)] = tmp[p] /\ \A f \in Files : f # At(p) => real'[f] = real[f]
    BY <1>2, <2>1 DEF CacheTypeOK
  <2>5. ASSUME ~short' PROVE NoTornFile'
    <3>1. egg[p] # "part" /\ NoTornFile BY <1>1, <2>5, CacheAssumption DEF CacheInv, CacheTypeOK
    <3> QED BY <1>1, <2>2, <2>4, <2>5, <3>1 DEF NoTornFile
  <2>6. TodoFits(p)' /\ NoSecondTry(p)' /\ (~short' => TempWhole(p)' /\ PromiseKept(p)')
    <3>1. ~short => real'[At(p)] = egg[p] BY <2>2, <2>4
    <3> QED BY <1>1, <2>1, <2>4, <3>1, ExtractedKeeps
  <2>7. short \/ \E f \in Files : real' = [real EXCEPT ![f] = egg[p]] BY <1>2, <2>1, <2>2
  <2> QED BY <1>1, <2>3, <2>5, <2>6, <2>7, OthersKept, CacheInvFromParts
<1> QED BY <1>3, <1>4

LEMMA UnlinkKeeps ==
  ASSUME CacheTypeOK, CacheInv, NEW p \in Procs, Unlink(p)
  PROVE  CacheInv'
<1>1. /\ UNCHANGED <<nt, egg, tmp, todo, promised, short>> /\ cpc[p] = "unlink" /\ todo[p] # <<>>
      /\ \E v \in {"failed", "again"} : cpc' = [cpc EXCEPT ![p] = v]
  BY DEF Unlink, CacheInv, TodoFits
<1>2. cpc'[p] \in {"failed", "again"} BY <1>1 DEF CacheTypeOK
<1>3. nt BY <1>1 DEF CacheInv, NoSecondTry
<1>4. ASSUME NEW q \in Procs, q # p PROVE cpc'[q] = cpc[q] BY <1>1, <1>4 DEF CacheTypeOK
<1>5. ASSUME ~short' PROVE NoTornFile'
  <2>1. \A f \in Files : real'[f] = real[f] \/ real'[f] = "none" BY DEF Unlink, CacheTypeOK
  <2> QED BY <1>1, <1>5, <2>1 DEF CacheInv, NoTornFile
<1>6. TodoFits(p)' /\ NoSecondTry(p)' /\ (~short' => TempWhole(p)' /\ PromiseKept(p)')
  BY <1>1, <1>2, <1>3 DEF CacheInv, TodoFits, NoSecondTry, TempWhole, PromiseKept
<1> QED BY <1>1, <1>3, <1>4, <1>5, <1>6, OthersKept, CacheInvFromParts

LEMMA CrashKeeps ==
  ASSUME CacheTypeOK, CacheInv, NEW p \in Procs, Crash(p)
  PROVE  CacheInv'
<1>1. UNCHANGED <<nt, egg, real, tmp, todo, promised, short>> /\ cpc' = [cpc EXCEPT ![p] = "gone"]
  BY DEF Crash
<1>2. cpc'[p] = "gone" BY <1>1 DEF CacheTypeOK
<1>3. ASSUME NEW q \in Procs, q # p PROVE cpc'[q] = cpc[q] BY <1>1, <1>3 DEF CacheTypeOK
<1>4. ~short' => NoTornFile' BY <1>1 DEF CacheInv, NoTornFile
<1>5. TodoFits(p)' /\ NoSecondTry(p)' /\ TempWhole(p)' /\ PromiseKept(p)'
  BY <1>2 DEF TodoFits, NoSecondTry, TempWhole, PromiseKept
<1> QED BY <1>1, <1>3, <1>4, <1>5, OthersKept, CacheInvFromParts

LEMMA CacheInvIdle ==
  ASSUME CacheInv, UNCHANGED cacheVars
  PROVE  CacheInv'
<1>1. \A q \in Procs : TodoFits(q)' /\ NoSecondTry(q)' /\ (~short' => TempWhole(q)' /\ PromiseKept(q)')
  BY DEF CacheInv, cacheVars, TodoFits, NoSecondTry, TempWhole, PromiseKept
<1>2. ~short' => NoTornFile' BY DEF CacheInv, cacheVars, NoTornFile
<1> QED BY <1>1, <1>2 DEF CacheInv

LEMMA CacheInvStep == CacheTypeOK /\ CacheInv /\ [CacheNext]_cacheVars => CacheInv'
<1> SUFFICES ASSUME CacheTypeOK, CacheInv, [CacheNext]_cacheVars PROVE CacheInv' OBVIOUS
<1>1. CASE UNCHANGED cacheVars BY <1>1, CacheInvIdle
<1>2. ASSUME NEW p \in Procs, NEW r \in Resources, get_resource_filename(p, r) PROVE CacheInv'
  BY <1>2, AskKeeps
<1>3. ASSUME NEW p \in Procs, CheckCache(p) \/ Retry(p) PROVE CacheInv' BY <1>3, CheckKeeps
<1>4. ASSUME NEW p \in Procs, WriteTemp(p) PROVE CacheInv' BY <1>4, WriteKeeps
<1>5. ASSUME NEW p \in Procs, Rename(p) PROVE CacheInv' BY <1>5, RenameKeeps
<1>6. ASSUME NEW p \in Procs, Unlink(p) PROVE CacheInv' BY <1>6, UnlinkKeeps
<1>7. ASSUME NEW p \in Procs, Crash(p) PROVE CacheInv' BY <1>7, CrashKeeps
<1> QED BY <1>1, <1>2, <1>3, <1>4, <1>5, <1>6, <1>7 DEF CacheNext

\* Calls of get_resource_filename extract files of the archive, one after the other, and no
\* second try is made where files can be renamed over.
THEOREM CacheInvariant == CacheSpec => [](CacheTypeOK /\ CacheInv)
<1>1. CacheInit => CacheTypeOK /\ CacheInv BY CacheTypeInit, CacheInvInit
<1>2. CacheTypeOK /\ CacheInv /\ [CacheNext]_cacheVars => (CacheTypeOK /\ CacheInv)'
  <2>1. CacheInv => \A p \in Procs : TodoFits(p) BY DEF CacheInv
  <2> QED BY <2>1, CacheTypeStep, CacheInvStep
<1> QED BY <1>1, <1>2, PTL DEF CacheSpec

\* The files that get_resource_filename returned can be used, however many processes
\* extract the same eggs and wherever they stop: none is torn, and where files can be renamed
\* over (not on Windows), each has the content of the egg as long as all have the same egg.
THEOREM FilesStay == CacheSpec => []ReturnedFilesStay
<1>1. CacheTypeOK /\ CacheInv => ReturnedFilesStay
  <2> SUFFICES ASSUME CacheTypeOK, CacheInv, ~short,
                      NEW p \in Procs, cpc[p] = "idle", ~nt, \A q \in Procs : egg[q] = egg[p],
                      NEW f \in promised[p]
               PROVE  real[f] = egg[p]
    BY DEF ReturnedFilesStay, CacheInv
  <2>1. real[f] = egg[p] \/ f \in Range(todo[p]) BY DEF CacheInv, PromiseKept
  <2>2. todo[p] = <<>> BY DEF CacheInv, TodoFits
  <2>3. Range(<<>>) = {} BY DEF Range
  <2> QED BY <2>1, <2>2, <2>3
<1> QED BY <1>1, CacheInvariant, PTL

-----------------------------------------------------------------------------
(* Two ParseResults that are edited.                                              *)

Occurrences == [v : TokenIds, pos : Nat]

PrTypeOK ==
  /\ toklist \in [Objects -> Seq(TokenIds)]
  /\ tokdict = [o \in Objects |-> tokdict[o]]
  /\ \A k \in DOMAIN lists : lists[k] \in Seq(Occurrences)
  /\ edits \in Nat /\ slipped \in BOOLEAN

\* the lists of occurrences an object has were made, and each by an edit before this one
Made == /\ \A k \in DOMAIN lists : k[1] \in Nat /\ k[1] < edits
        /\ \A o \in Objects : Keys(o) \subseteq DOMAIN lists

\* no token twice
Different(s) == \A i, j \in DOMAIN s : s[i] = s[j] => i = j

EditInv == PrTypeOK /\ Made /\ (\A o \in Objects : Different(toklist[o])) /\ OffsetsExact

-----------------------------------------------------------------------------
\* Two sequences one after the other.
LEMMA JoinFacts ==
  ASSUME NEW S, NEW a \in Seq(S), NEW b \in Seq(S)
  PROVE  /\ a \o b \in Seq(S) /\ Len(a) \in Nat /\ Len(b) \in Nat /\ Len(a \o b) = Len(a) + Len(b)
         /\ \A i \in 1..Len(a) : (a \o b)[i] = a[i]
         /\ \A j \in 1..Len(b) : (a \o b)[Len(a) + j] = b[j]
         /\ DOMAIN a = 1..Len(a) /\ DOMAIN b = 1..Len(b) /\ DOMAIN (a \o b) = 1..Len(a) + Len(b)
  OBVIOUS

\* What they contain.
LEMMA JoinRange ==
  ASSUME NEW S, NEW a \in Seq(S), NEW b \in Seq(S)
  PROVE  Range(a \o b) = Range(a) \cup Range(b)
<1>1. ASSUME NEW i \in DOMAIN (a \o b)
      PROVE  (a \o b)[i] \in Range(a) \cup Range(b)
  <2>1. CASE i \in 1..Len(a)
    BY <2>1, JoinFacts DEF Range
  <2>2. CASE i \notin 1..Len(a)
    <3>1. i - Len(a) \in 1..Len(b) /\ i = Len(a) + (i - Len(a))
      BY <1>1, <2>2, JoinFacts
    <3>2. (a \o b)[i] = b[i - Len(a)]
      BY <3>1, JoinFacts
    <3> QED
      BY <3>1, <3>2, JoinFacts DEF Range
  <2> QED
    BY <2>1, <2>2
<1>2. ASSUME NEW i \in DOMAIN a
      PROVE  a[i] \in Range(a \o b)
  <2>1. i \in DOMAIN (a \o b) /\ (a \o b)[i] = a[i]
    BY JoinFacts
  <2> QED
    BY <2>1 DEF Range
<1>3. ASSUME NEW j \in DOMAIN b
      PROVE  b[j] \in Range(a \o b)
  <2>1. Len(a) + j \in DOMAIN (a \o b) /\ (a \o b)[Len(a) + j] = b[j]
    BY JoinFacts
  <2> QED
    BY <2>1 DEF Range
<1> QED
  BY <1>1, <1>2, <1>3 DEF Range

\* No token twice in two lists that have none in common.
LEMMA JoinDifferent ==
  ASSUME NEW S, NEW a \in Seq(S), NEW b \in Seq(S), Different(a), Different(b),
         Range(a) \cap Range(b) = {}
  PROVE  Different(a \o b)
<1> SUFFICES ASSUME NEW i \in DOMAIN (a \o b), NEW j \in DOMAIN (a \o b), (a \o b)[i] = (a \o b)[j]
             PROVE  i = j
  BY DEF Different
<1> DEFINE In(x) == x \in 1..Len(a) /\ (a \o b)[x] = a[x] /\ a[x] \in Range(a)
           Behind(x) == /\ x - Len(a) \in 1..Len(b) /\ (a \o b)[x] = b[x - Len(a)]
                        /\ b[x - Len(a)] \in Range(b)
<1>1. ASSUME NEW x \in DOMAIN (a \o b)
      PROVE  In(x) \/ Behind(x)
  <2>1. CASE x \in 1..Len(a)
    BY <2>1, JoinFacts DEF Range
  <2>2. CASE x \notin 1..Len(a)
    <3>1. x - Len(a) \in 1..Len(b) /\ x = Len(a) + (x - Len(a))
      BY <1>1, <2>2, JoinFacts
    <3>2. (a \o b)[x] = b[x - Len(a)]
      BY <3>1, JoinFacts
    <3> QED
      BY <3>1, <3>2, JoinFacts DEF Range
  <2> QED
    BY <2>1, <2>2
<1>2. CASE In(i) /\ In(j)
  <2>1. a[i] = a[j] /\ i \in DOMAIN a /\ j \in DOMAIN a
    BY <1>2, JoinFacts
  <2> QED
    BY <2>1 DEF Different
<1>3. CASE Behind(i) /\ Behind(j)
  <2>0. b[i - Len(a)] = b[j - Len(a)] /\ i - Len(a) \in DOMAIN b /\ j - Len(a) \in DOMAIN b
    BY <1>3, JoinFacts
  <2>1. i - Len(a) = j - Len(a)
    BY <2>0 DEF Different
  <2>2. i \in Nat /\ j \in Nat /\ Len(a) \in Nat
    BY JoinFacts
  <2> QED
    BY <2>1, <2>2
<1>4. ~(In(i) /\ Behind(j)) /\ ~(In(j) /\ Behind(i))
  OBVIOUS
<1> QED
  BY <1>1, <1>2, <1>3, <1>4

-----------------------------------------------------------------------------
\* Occurrences that are moved keep their tokens.
LEMMA MovedFacts ==
  ASSUME NEW occ \in Seq(Occurrences), NEW f \in [Nat -> Nat]
  PROVE  /\ Moved(occ, f) \in Seq(Occurrences)
         /\ \A y \in Range(Moved(occ, f)) : \E x \in Range(occ) :
              x \in Occurrences /\ y.v = x.v /\ y.pos = f[x.pos]
<1>1. \A i \in 1..Len(occ) : occ[i] \in Occurrences
  OBVIOUS
<1>2. DOMAIN occ = 1..Len(occ) /\ Len(occ) \in Nat
  OBVIOUS
<1>3. \A i \in 1..Len(occ) : [v |-> occ[i].v, pos |-> f[occ[i].pos]] \in Occurrences
  BY <1>1 DEF Occurrences
<1>4. Moved(occ, f) \in Seq(Occurrences)
  <2>1. [i \in 1..Len(occ) |-> [v |-> occ[i].v, pos |-> f[occ[i].pos]]] \in Seq(Occurrences)
    BY SMTT(30), <1>2, <1>3
  <2> QED
    BY <1>2, <2>1 DEF Moved
<1>5. ASSUME NEW y \in Range(Moved(occ, f))
      PROVE  \E x \in Range(occ) : x \in Occurrences /\ y.v = x.v /\ y.pos = f[x.pos]
  <2>1. PICK i \in 1..Len(occ) : y = [v |-> occ[i].v, pos |-> f[occ[i].pos]]
    BY <1>2 DEF Moved, Range
  <2>2. occ[i] \in Range(occ) /\ occ[i] \in Occurrences
    BY <1>1, <1>2 DEF Range
  <2> QED
    BY <2>1, <2>2
<1> QED
  BY <1>4, <1>5

\* Tokens behind the list disturb no offset.
LEMMA ExactBehind ==
  ASSUME NEW s \in Seq(TokenIds), NEW more \in Seq(TokenIds), NEW occ \in Seq(Occurrences),
         Exact(s, occ), \A x \in Range(occ) : x.v \notin Range(more)
  PROVE  Exact(s \o more, occ)
<1> SUFFICES ASSUME NEW x \in Range(occ), x.v \in Range(s \o more)
             PROVE  x.pos + 1 \in DOMAIN (s \o more) /\ (s \o more)[x.pos + 1] = x.v
  BY DEF Exact
<1>1. x.v \in Range(s)
  BY JoinRange
<1>2. x.pos + 1 \in DOMAIN s /\ s[x.pos + 1] = x.v
  BY <1>1 DEF Exact
<1> QED
  BY <1>2, JoinFacts

\* Offsets that grow by the length of what comes before the list are exact.
LEMMA ExactBefore ==
  ASSUME NEW s \in Seq(TokenIds), NEW first \in Seq(TokenIds), NEW occ \in Seq(Occurrences),
         Exact(s, occ), \A x \in Range(occ) : x.v \notin Range(first)
  PROVE  Exact(first \o s, Moved(occ, [q \in Nat |-> q + Len(first)]))
<1> DEFINE f == [q \in Nat |-> q + Len(first)]
<1>1. f \in [Nat -> Nat]
  OBVIOUS
<1> SUFFICES ASSUME NEW y \in Range(Moved(occ, f)), y.v \in Range(first \o s)
             PROVE  y.pos + 1 \in DOMAIN (first \o s) /\ (first \o s)[y.pos + 1] = y.v
  BY DEF Exact
<1>2. PICK x \in Range(occ) : x \in Occurrences /\ y.v = x.v /\ y.pos = f[x.pos]
  BY <1>1, MovedFacts
<1>3. x.v \in Range(s)
  BY <1>2, JoinRange
<1>4. x.pos + 1 \in DOMAIN s /\ s[x.pos + 1] = x.v
  BY <1>3 DEF Exact
<1>5. x.pos \in Nat /\ y.pos = x.pos + Len(first) /\ Len(first) \in Nat
  BY <1>2 DEF Occurrences
<1>6. y.pos + 1 = Len(first) + (x.pos + 1)
  BY <1>5
<1> QED
  BY SMTT(30), <1>2, <1>4, <1>6, JoinFacts

\* Occurrences of both kinds, one after the other.
LEMMA ExactJoin ==
  ASSUME NEW s, NEW a \in Seq(Occurrences), NEW b \in Seq(Occurrences), Exact(s, a), Exact(s, b)
  PROVE  Exact(s, a \o b)
  BY JoinRange DEF Exact

\* A token that is not in the list, put into it: the list, and the offsets at and above it.
LEMMA InsertFacts ==
  ASSUME NEW s \in Seq(TokenIds), NEW i \in 0..Len(s), NEW t \in TokenIds
  PROVE  /\ InsertAt(s, i + 1, t) \in Seq(TokenIds) /\ Len(InsertAt(s, i + 1, t)) = Len(s) + 1
         /\ InsertAt(s, i + 1, t)[i + 1] = t
         /\ \A j \in 1..Len(s) : InsertAt(s, i + 1, t)[IF j > i THEN j + 1 ELSE j] = s[j]
<1> DEFINE a == SubSeq(s, 1, i)
           b == SubSeq(s, i + 1, Len(s))
           at == a \o <<t>>
<1>1. Len(s) \in Nat /\ i \in Nat /\ i <= Len(s) /\ \A j \in 1..Len(s) : s[j] \in TokenIds
  OBVIOUS
<1>2. a \in Seq(TokenIds) /\ Len(a) = i /\ \A j \in 1..i : a[j] = s[j]
  BY <1>1
<1>3. b \in Seq(TokenIds) /\ Len(b) = Len(s) - i /\ \A j \in 1..Len(s) - i : b[j] = s[j + i]
  BY <1>1
<1>4. InsertAt(s, i + 1, t) = at \o b
  <2>1. InsertAt(s, i + 1, t) = SubSeq(s, 1, (i + 1) - 1) \o <<t>> \o SubSeq(s, i + 1, Len(s))
    BY Zenon DEF InsertAt
  <2>2. (i + 1) - 1 = i
    BY <1>1
  <2> QED
    BY <2>1, <2>2, Zenon
<1> HIDE DEF a, b
<1>5. <<t>> \in Seq(TokenIds) /\ Len(<<t>>) = 1 /\ <<t>>[1] = t
  OBVIOUS
<1>6. at \in Seq(TokenIds) /\ Len(at) = i + 1 /\ at[i + 1] = t /\ \A j \in 1..i : at[j] = s[j]
  BY <1>1, <1>2, <1>5, JoinFacts
<1> HIDE DEF at
<1>7. /\ at \o b \in Seq(TokenIds) /\ Len(at \o b) = Len(s) + 1
      /\ \A j \in 1..i + 1 : (at \o b)[j] = at[j]
      /\ \A j \in 1..Len(s) - i : (at \o b)[i + 1 + j] = b[j]
  BY <1>1, <1>3, <1>6, JoinFacts
<1>8. ASSUME NEW j \in 1..Len(s)
      PROVE  (at \o b)[IF j > i THEN j + 1 ELSE j] = s[j]
  <2>1. CASE j > i
    <3>1. j - i \in 1..Len(s) - i /\ i + 1 + (j - i) = j + 1 /\ j - i + i = j
      BY <1>1, <2>1
    <3>2. (at \o b)[j + 1] = b[j - i] /\ b[j - i] = s[j]
      BY <1>3, <1>7, <3>1
    <3> QED
      BY <2>1, <3>2
  <2>2. CASE ~(j > i)
    <3>1. j \in 1..i /\ j \in 1..i + 1
      BY <1>1, <2>2
    <3> QED
      BY <1>6, <1>7, <2>2, <3>1
  <2> QED
    BY <2>1, <2>2
<1>9. (at \o b)[i + 1] = t
  BY <1>1, <1>6, <1>7
<1> QED
  BY <1>4, <1>7, <1>8, <1>9

LEMMA InsertRange ==
  ASSUME NEW s \in Seq(TokenIds), NEW i \in 0..Len(s), NEW t \in TokenIds,
         NEW x \in 1..Len(s) + 1, x # i + 1
  PROVE  \E j \in 1..Len(s) : x = (IF j > i THEN j + 1 ELSE j) /\ InsertAt(s, i + 1, t)[x] = s[j]
<1>1. Len(s) \in Nat /\ i \in Nat
  OBVIOUS
<1>2. CASE x > i
  <2>1. x - 1 \in 1..Len(s) /\ x - 1 > i /\ x - 1 + 1 = x
    BY <1>1, <1>2
  <2>2. InsertAt(s, i + 1, t)[IF x - 1 > i THEN x - 1 + 1 ELSE x - 1] = s[x - 1]
    BY <2>1, InsertFacts
  <2> QED
    BY <2>1, <2>2
<1>3. CASE ~(x > i)
  <2>1. x \in 1..Len(s)
    BY <1>1, <1>3
  <2>2. InsertAt(s, i + 1, t)[IF x > i THEN x + 1 ELSE x] = s[x]
    BY <2>1, InsertFacts
  <2> QED
    BY <1>3, <2>1, <2>2
<1> QED
  BY <1>2, <1>3

LEMMA InsertDifferent ==
  ASSUME NEW s \in Seq(TokenIds), NEW i \in 0..Len(s), NEW t \in TokenIds,
         Different(s), t \notin Range(s)
  PROVE  Different(InsertAt(s, i + 1, t))
<1> DEFINE w == InsertAt(s, i + 1, t)
<1>1. w \in Seq(TokenIds) /\ DOMAIN w = 1..Len(s) + 1 /\ w[i + 1] = t /\ DOMAIN s = 1..Len(s)
  BY InsertFacts
<1>2. \A x \in 1..Len(s) + 1 : x # i + 1 =>
        \E j \in 1..Len(s) : x = (IF j > i THEN j + 1 ELSE j) /\ w[x] = s[j]
  BY InsertRange
<1> HIDE DEF w
<1> SUFFICES ASSUME NEW x \in 1..Len(s) + 1, NEW y \in 1..Len(s) + 1, w[x] = w[y]
             PROVE  x = y
  BY <1>1 DEF Different, w
<1>3. CASE x = i + 1 \/ y = i + 1
  BY <1>1, <1>2, <1>3 DEF Range
<1>4. CASE x # i + 1 /\ y # i + 1
  <2>1. PICK j \in 1..Len(s) : x = (IF j > i THEN j + 1 ELSE j) /\ w[x] = s[j]
    BY <1>2, <1>4
  <2>2. PICK k \in 1..Len(s) : y = (IF k > i THEN k + 1 ELSE k) /\ w[y] = s[k]
    BY <1>2, <1>4
  <2>3. j = k
    BY <1>1, <2>1, <2>2 DEF Different
  <2> QED
    BY <2>1, <2>2, <2>3
<1> QED
  BY <1>3, <1>4

\* insert() leaves every offset exact when the index it was called with separates the offsets
\* as the place does where the token goes.
LEMMA ExactInsert ==
  ASSUME NEW s \in Seq(TokenIds), NEW i \in 0..Len(s), NEW t \in TokenIds, NEW r \in Int,
         NEW occ \in Seq(Occurrences), Exact(s, occ),
         \A x \in Range(occ) : x.v # t /\ (x.pos < Len(s) => (x.pos > r <=> x.pos >= i))
  PROVE  Exact(InsertAt(s, i + 1, t), Moved(occ, [p \in Nat |-> IF p > r THEN p + 1 ELSE p]))
<1> DEFINE w == InsertAt(s, i + 1, t)
           f == [p \in Nat |-> IF p > r THEN p + 1 ELSE p]
<1>1. w \in Seq(TokenIds) /\ DOMAIN w = 1..Len(s) + 1 /\ w[i + 1] = t /\ DOMAIN s = 1..Len(s)
  <2>1. w \in Seq(TokenIds) /\ Len(w) = Len(s) + 1 /\ w[i + 1] = t
    BY InsertFacts
  <2> HIDE DEF w
  <2> QED
    BY <2>1
<1>2. \A x \in 1..Len(s) + 1 : x # i + 1 =>
        \E j \in 1..Len(s) : x = (IF j > i THEN j + 1 ELSE j) /\ w[x] = s[j]
  BY InsertRange
<1>3. \A j \in 1..Len(s) : w[IF j > i THEN j + 1 ELSE j] = s[j]
  BY InsertFacts
<1>4. f \in [Nat -> Nat] /\ Len(s) \in Nat /\ i \in Nat
  OBVIOUS
<1> HIDE DEF w
<1> SUFFICES ASSUME NEW y \in Range(Moved(occ, f)), y.v \in Range(w)
             PROVE  y.pos + 1 \in DOMAIN w /\ w[y.pos + 1] = y.v
  BY DEF Exact, w
<1>5. PICK x \in Range(occ) : x \in Occurrences /\ y.v = x.v /\ y.pos = f[x.pos]
  BY <1>4, MovedFacts
<1>6. x.pos \in Nat /\ (x.pos < Len(s) => (x.pos > r <=> x.pos >= i)) /\ x.v # t
  BY <1>5 DEF Occurrences
<1>7. x.v \in Range(s)
  <2>1. PICK a \in 1..Len(s) + 1 : x.v = w[a]
    BY <1>1, <1>5 DEF Range
  <2>2. a # i + 1
    BY <1>1, <1>6, <2>1
  <2> QED
    BY <1>1, <1>2, <2>1, <2>2 DEF Range
<1>8. x.pos + 1 \in 1..Len(s) /\ s[x.pos + 1] = x.v
  BY <1>1, <1>7 DEF Exact
<1>9. y.pos + 1 = (IF x.pos + 1 > i THEN x.pos + 1 + 1 ELSE x.pos + 1)
  BY <1>4, <1>5, <1>6, <1>8
<1>10. w[y.pos + 1] = s[x.pos + 1]
  BY <1>3, <1>8, <1>9
<1>11. y.pos + 1 \in 1..Len(s) + 1
  BY <1>4, <1>6, <1>8, <1>9
<1> QED
  BY <1>1, <1>5, <1>8, <1>10, <1>11

\* What is left of the list without one of its tokens.
LEMMA RemoveFacts ==
  ASSUME NEW s \in Seq(TokenIds), NEW p \in 1..Len(s)
  PROVE  /\ RemoveAt(s, p) \in Seq(TokenIds) /\ Len(s) \in Nat /\ Len(RemoveAt(s, p)) = Len(s) - 1
         /\ \A j \in 1..Len(s) - 1 : RemoveAt(s, p)[j] = s[IF j < p THEN j ELSE j + 1]
<1> DEFINE a == SubSeq(s, 1, p - 1)
           b == SubSeq(s, p + 1, Len(s))
<1>1. Len(s) \in Nat /\ \A j \in 1..Len(s) : s[j] \in TokenIds
  OBVIOUS
<1>2. a \in Seq(TokenIds) /\ Len(a) = p - 1 /\ \A j \in 1..p - 1 : a[j] = s[j]
  BY <1>1
<1>3. b \in Seq(TokenIds) /\ Len(b) = Len(s) - p /\ \A j \in 1..Len(s) - p : b[j] = s[j + p]
  BY <1>1
<1>4. RemoveAt(s, p) = a \o b
  BY DEF RemoveAt
<1> HIDE DEF a, b
<1>5. /\ a \o b \in Seq(TokenIds) /\ Len(a \o b) = Len(a) + Len(b)
      /\ \A k \in 1..Len(a) : (a \o b)[k] = a[k]
      /\ \A k \in 1..Len(b) : (a \o b)[Len(a) + k] = b[k]
  <2>1. a \in Seq(TokenIds) /\ b \in Seq(TokenIds)
    BY <1>2, <1>3
  <2> QED
    BY <2>1, JoinFacts
<1>6. a \o b \in Seq(TokenIds) /\ Len(a \o b) = Len(s) - 1
  <2>1. (p - 1) + (Len(s) - p) = Len(s) - 1
    BY <1>1
  <2> QED
    BY <1>2, <1>3, <1>5, <2>1
<1>7. ASSUME NEW j \in 1..Len(s) - 1
      PROVE  (a \o b)[j] = s[IF j < p THEN j ELSE j + 1]
  <2>1. CASE j < p
    <3>1. j \in 1..p - 1
      BY <1>1, <2>1
    <3> QED
      BY <1>2, <1>5, <2>1, <3>1
  <2>2. CASE ~(j < p)
    <3>1. j - (p - 1) \in 1..Len(s) - p /\ j - (p - 1) + p = j + 1 /\ (p - 1) + (j - (p - 1)) = j
      BY <1>1, <2>2
    <3>2. b[j - (p - 1)] = s[j + 1]
      BY <1>3, <3>1
    <3>3. (a \o b)[(p - 1) + (j - (p - 1))] = b[j - (p - 1)]
      BY <1>2, <1>3, <1>5, <3>1
    <3> QED
      BY <2>2, <3>1, <3>2, <3>3
  <2> QED
    BY <2>1, <2>2
<1> QED
  BY <1>1, <1>4, <1>6, <1>7

LEMMA RemoveDifferent ==
  ASSUME NEW s \in Seq(TokenIds), NEW p \in 1..Len(s), Different(s)
  PROVE  /\ Different(RemoveAt(s, p)) /\ Range(RemoveAt(s, p)) \subseteq Range(s)
         /\ s[p] \notin Range(RemoveAt(s, p))
<1> DEFINE w == RemoveAt(s, p)
           old(j) == IF j < p THEN j ELSE j + 1
<1>1. DOMAIN w = 1..Len(s) - 1 /\ DOMAIN s = 1..Len(s) /\ Len(s) \in Nat
  BY RemoveFacts
<1>2. ASSUME NEW j \in DOMAIN w
      PROVE  w[j] = s[old(j)] /\ old(j) \in DOMAIN s /\ old(j) # p
  <2>1. w[j] = s[old(j)]
    BY <1>1, RemoveFacts
  <2>2. old(j) \in DOMAIN s /\ old(j) # p
    BY <1>1
  <2> QED
    BY <2>1, <2>2
<1> HIDE DEF w
<1>3. ASSUME NEW j \in DOMAIN w, NEW k \in DOMAIN w, w[j] = w[k]
      PROVE  j = k
  <2>1. old(j) = old(k)
    BY <1>2, <1>3 DEF Different
  <2> QED
    BY <1>1, <2>1
<1>4. ASSUME NEW j \in DOMAIN w
      PROVE  w[j] \in Range(s) /\ w[j] # s[p]
  BY <1>1, <1>2 DEF Different, Range
<1> QED
  BY <1>3, <1>4 DEF Different, Range, w

\* del self[i] leaves every offset exact.
LEMMA ExactDelete ==
  ASSUME NEW s \in Seq(TokenIds), NEW i \in Nat, i + 1 \in 1..Len(s), Different(s),
         NEW occ \in Seq(Occurrences), Exact(s, occ)
  PROVE  Exact(RemoveAt(s, i + 1), Moved(occ, [p \in Nat |-> AfterDelete(p, i)]))
<1> DEFINE w == RemoveAt(s, i + 1)
           f == [p \in Nat |-> AfterDelete(p, i)]
<1>1. DOMAIN w = 1..Len(s) - 1 /\ DOMAIN s = 1..Len(s) /\ Len(s) \in Nat
  BY RemoveFacts
<1>2. \A j \in 1..Len(s) - 1 : w[j] = s[IF j < i + 1 THEN j ELSE j + 1]
  BY RemoveFacts
<1>3. Range(w) \subseteq Range(s) /\ s[i + 1] \notin Range(w)
  BY RemoveDifferent
<1>4. f \in [Nat -> Nat]
  BY DEF AfterDelete
<1> HIDE DEF w
<1> SUFFICES ASSUME NEW y \in Range(Moved(occ, f)), y.v \in Range(w)
             PROVE  y.pos + 1 \in DOMAIN w /\ w[y.pos + 1] = y.v
  BY DEF Exact, w
<1>5. PICK x \in Range(occ) : x \in Occurrences /\ y.v = x.v /\ y.pos = f[x.pos]
  BY <1>4, MovedFacts
<1>6. x.pos \in Nat /\ y.pos = IF x.pos > i THEN x.pos - 1 ELSE x.pos
  BY <1>5 DEF Occurrences, AfterDelete
<1>7. x.pos + 1 \in 1..Len(s) /\ s[x.pos + 1] = x.v
  BY <1>1, <1>3, <1>5 DEF Exact
<1>8. x.pos # i
  BY <1>3, <1>5, <1>7
<1>9. y.pos + 1 \in 1..Len(s) - 1
  BY <1>1, <1>6, <1>7, <1>8
<1>10. x.pos + 1 = IF y.pos + 1 < i + 1 THEN y.pos + 1 ELSE y.pos + 1 + 1
  BY <1>6, <1>8
<1>11. w[y.pos + 1] = s[x.pos + 1]
  BY <1>2, <1>9, <1>10
<1> QED
  BY <1>1, <1>5, <1>7, <1>9, <1>11

-----------------------------------------------------------------------------
\* What an object has before an edit.
LEMMA BeforeEdit ==
  ASSUME EditInv, NEW o \in Objects
  PROVE  /\ toklist[o] \in Seq(TokenIds) /\ Different(toklist[o]) /\ Len(toklist[o]) \in Nat
         /\ \A k \in Keys(o) : /\ k \in DOMAIN lists /\ lists[k] \in Seq(Occurrences)
                               /\ \A x \in Range(lists[k]) : x.v \in Known(o)
                               /\ ~slipped => Exact(toklist[o], lists[k])
         /\ Range(toklist[o]) \subseteq Known(o)
<1>1. toklist[o] \in Seq(TokenIds) /\ Different(toklist[o])
  BY DEF EditInv, PrTypeOK
<1>2. ASSUME NEW k \in Keys(o)
      PROVE  /\ k \in DOMAIN lists /\ lists[k] \in Seq(Occurrences)
             /\ ~slipped => Exact(toklist[o], lists[k])
  BY <1>2 DEF EditInv, PrTypeOK, Made, OffsetsExact
<1>3. \A k \in Keys(o) : \A x \in Range(lists[k]) : x.v \in Known(o)
  BY DEF Known
<1>4. Range(toklist[o]) \subseteq Known(o)
  BY DEF Known
<1> QED
  BY <1>1, <1>2, <1>3, <1>4

\* The occurrences of a name before it gets another.
LEMMA OldFacts ==
  ASSUME EditInv, NEW o \in Objects, NEW n
  PROVE  /\ Old(o, n) \in Seq(Occurrences)
         /\ \A x \in Range(Old(o, n)) : x.v \in Known(o)
         /\ ~slipped => Exact(toklist[o], Old(o, n))
<1>1. CASE n \in DOMAIN tokdict[o]
  <2>1. tokdict[o][n] \in Keys(o)
    BY <1>1 DEF Keys
  <2> QED
    BY <1>1, <2>1, BeforeEdit DEF Old
<1>2. CASE n \notin DOMAIN tokdict[o]
  <2>1. Old(o, n) = <<>> /\ Range(<<>>) = {} /\ <<>> \in Seq(Occurrences)
    BY <1>2 DEF Old, Range
  <2> QED
    BY <2>1 DEF Exact
<1> QED
  BY <1>1, <1>2

\* self[name] = occurrence makes new lists and leaves those that were there alone.
LEMMA SetItemsFacts ==
  ASSUME EditInv, NEW o \in Objects, NEW more, SetItems(o, more), Edited,
         \A n \in DOMAIN more : more[n] \in Seq(Occurrences)
  PROVE  /\ tokdict' = [q \in Objects |-> tokdict'[q]]
         /\ \A k \in DOMAIN lists' : lists'[k] \in Seq(Occurrences)
         /\ Made'
         /\ \A q \in Objects \ {o} : Keys(q)' = Keys(q)
         /\ \A q \in Objects : \A k \in Keys(q) : lists'[k] = lists[k]
         /\ \A k \in Keys(o)' : \/ k \in Keys(o)
                                \/ \E n \in DOMAIN more : lists'[k] = Old(o, n) \o more[n]
<1> DEFINE made == {<<edits, n>> : n \in DOMAIN more}
           dict == [n \in DOMAIN tokdict[o] \cup DOMAIN more |->
                      IF n \in DOMAIN more THEN <<edits, n>> ELSE tokdict[o][n]]
<1>1. /\ lists' = [k \in DOMAIN lists \cup made |->
                     IF k \in made THEN Old(o, k[2]) \o more[k[2]] ELSE lists[k]]
      /\ tokdict' = [tokdict EXCEPT ![o] = dict]
      /\ edits \in Nat /\ edits' = edits + 1 /\ tokdict = [q \in Objects |-> tokdict[q]]
  BY DEF SetItems, EditInv, PrTypeOK, Edited
<1>2. /\ tokdict' = [q \in Objects |-> tokdict'[q]] /\ tokdict'[o] = dict
      /\ \A q \in Objects \ {o} : tokdict'[q] = tokdict[q]
  BY <1>1
<1>3. DOMAIN lists' = DOMAIN lists \cup made
  BY <1>1
<1>4. ASSUME NEW k \in DOMAIN lists
      PROVE  k \notin made /\ lists'[k] = lists[k]
  <2>1. k[1] \in Nat /\ k[1] < edits
    BY DEF EditInv, Made
  <2>2. \A n : <<edits, n>>[1] = edits
    OBVIOUS
  <2>3. k \notin made
    BY <1>1, <2>1, <2>2
  <2> QED
    BY <1>1, <2>3
<1>5. ASSUME NEW n \in DOMAIN more
      PROVE  <<edits, n>> \in made /\ lists'[<<edits, n>>] = Old(o, n) \o more[n]
  <2>1. <<edits, n>> \in made /\ <<edits, n>>[2] = n
    OBVIOUS
  <2> HIDE DEF made
  <2> QED
    BY <1>1, <2>1
<1>6. ASSUME NEW n \in DOMAIN more
      PROVE  Old(o, n) \o more[n] \in Seq(Occurrences)
  BY OldFacts, JoinFacts
<1>7. ASSUME NEW k \in made
      PROVE  \E n \in DOMAIN more : k = <<edits, n>> /\ lists'[k] = Old(o, n) \o more[n]
  BY <1>5
<1> HIDE DEF made
<1>8. ASSUME NEW k \in DOMAIN lists'
      PROVE  lists'[k] \in Seq(Occurrences)
  <2>1. CASE k \in DOMAIN lists
    BY <1>4, <2>1 DEF EditInv, PrTypeOK
  <2>2. CASE k \in made
    BY <1>6, <1>7, <2>2
  <2> QED
    BY <1>3, <2>1, <2>2
<1>9. \A q \in Objects \ {o} : Keys(q)' = Keys(q)
  BY <1>2 DEF Keys
<1>10. ASSUME NEW k \in Keys(o)'
       PROVE  k \in Keys(o) \/ k \in made
  <2>1. PICK n \in DOMAIN dict : k = dict[n]
    BY <1>2 DEF Keys
  <2>2. CASE n \in DOMAIN more
    BY <1>5, <2>1, <2>2
  <2>3. CASE n \notin DOMAIN more
    BY <2>1, <2>3 DEF Keys
  <2> QED
    BY <2>2, <2>3
<1>11. Made'
  <2>1. ASSUME NEW k \in DOMAIN lists'
        PROVE  k[1] \in Nat /\ k[1] < edits'
    <3>1. CASE k \in DOMAIN lists
      <4>1. k[1] \in Nat /\ k[1] < edits
        BY <3>1 DEF EditInv, Made
      <4> QED
        BY <1>1, <4>1
    <3>2. CASE k \in made
      <4>1. PICK n \in DOMAIN more : k = <<edits, n>>
        BY <1>7, <3>2
      <4>2. k[1] = edits
        BY <4>1
      <4> QED
        BY <1>1, <4>2
    <3> QED
      BY <1>3, <3>1, <3>2
  <2>2. ASSUME NEW q \in Objects
        PROVE  Keys(q)' \subseteq DOMAIN lists'
    <3>1. Keys(q) \subseteq DOMAIN lists /\ Keys(o) \subseteq DOMAIN lists
      BY DEF EditInv, Made
    <3> QED
      BY <1>3, <1>9, <1>10, <3>1
  <2> QED
    BY <2>1, <2>2 DEF Made
<1>12. \A q \in Objects : \A k \in Keys(q) : lists'[k] = lists[k]
  BY <1>4 DEF EditInv, Made
<1>13. \A k \in Keys(o)' : \/ k \in Keys(o)
                           \/ \E n \in DOMAIN more : lists'[k] = Old(o, n) \o more[n]
  BY <1>7, <1>10
<1> QED
  BY <1>2, <1>8, <1>9, <1>11, <1>12, <1>13

\* A token that is new goes behind a list without disturbing it.
LEMMA NewBehind ==
  ASSUME EditInv, NEW o \in Objects, NEW t, Unknown(t)
  PROVE  /\ t \in TokenIds /\ t \notin Known(o) /\ t \notin Range(toklist[o])
         /\ Append(toklist[o], t) \in Seq(TokenIds) /\ Different(Append(toklist[o], t))
         /\ \A occ \in Seq(Occurrences) : Exact(toklist[o], occ) /\ (\A x \in Range(occ) : x.v # t)
                                            => Exact(Append(toklist[o], t), occ)
<1>1. t \in TokenIds /\ t \notin Known(o) /\ t \notin Range(toklist[o])
  BY BeforeEdit DEF Unknown
<1>2. toklist[o] \in Seq(TokenIds) /\ Different(toklist[o])
  BY BeforeEdit
<1>3. <<t>> \in Seq(TokenIds) /\ Range(<<t>>) = {t} /\ Different(<<t>>)
  BY <1>1 DEF Range, Different
<1>4. Append(toklist[o], t) = toklist[o] \o <<t>>
  BY <1>1, <1>2
<1>5. Range(toklist[o]) \cap Range(<<t>>) = {}
  BY <1>1, <1>3
<1>6. toklist[o] \o <<t>> \in Seq(TokenIds) /\ Different(toklist[o] \o <<t>>)
  BY <1>2, <1>3, <1>5, JoinFacts, JoinDifferent
<1>7. ASSUME NEW occ \in Seq(Occurrences), Exact(toklist[o], occ), \A x \in Range(occ) : x.v # t
      PROVE  Exact(toklist[o] \o <<t>>, occ)
  <2>1. \A x \in Range(occ) : x.v \notin Range(<<t>>)
    BY <1>3, <1>7
  <2> QED
    BY <1>2, <1>3, <1>7, <2>1, ExactBehind
<1> QED
  BY <1>1, <1>4, <1>6, <1>7

LEMMA KeepsAppend ==
  ASSUME EditInv, NEW o \in Objects, NEW t, append(o, t)
  PROVE  EditInv'
<1>1. /\ Unknown(t) /\ edits' = edits + 1 /\ edits \in Nat
      /\ toklist' = [toklist EXCEPT ![o] = Append(@, t)] /\ toklist \in [Objects -> Seq(TokenIds)]
      /\ tokdict' = tokdict /\ lists' = lists /\ slipped' = slipped
  BY DEF append, Edited, EditInv, PrTypeOK
<1>2. /\ toklist' \in [Objects -> Seq(TokenIds)] /\ toklist'[o] = Append(toklist[o], t)
      /\ \A q \in Objects \ {o} : toklist'[q] = toklist[q]
  BY <1>1, NewBehind
<1>3. PrTypeOK'
  BY <1>1, <1>2 DEF EditInv, PrTypeOK
<1>4. \A q \in Objects : Keys(q)' = Keys(q)
  BY <1>1 DEF Keys
<1>5. Made'
  BY <1>1, <1>4 DEF EditInv, Made
<1>6. \A q \in Objects : Different(toklist'[q])
  BY <1>1, <1>2, NewBehind DEF EditInv
<1>7. ASSUME ~slipped, NEW q \in Objects, NEW k \in Keys(q)
      PROVE  Exact(toklist'[q], lists[k])
  <2>1. Exact(toklist[q], lists[k]) /\ lists[k] \in Seq(Occurrences)
    BY <1>7, BeforeEdit
  <2>2. CASE q = o
    <3>1. \A x \in Range(lists[k]) : x.v # t
      BY <1>1, <1>7, <2>2, BeforeEdit, NewBehind
    <3> QED
      BY <1>1, <1>2, <2>1, <2>2, <3>1, NewBehind
  <2> QED
    BY <1>2, <2>1, <2>2
<1>8. OffsetsExact'
  BY <1>1, <1>4, <1>7 DEF OffsetsExact
<1> QED
  BY <1>3, <1>5, <1>6, <1>8 DEF EditInv

LEMMA KeepsAddNamed ==
  ASSUME EditInv, NEW o \in Objects, NEW t, NEW n, AddNamed(o, t, n)
  PROVE  EditInv'
<1> DEFINE occ == << [v |-> t, pos |-> Len(toklist[o])] >>
           more == [m \in {n} |-> occ]
<1>1. /\ Unknown(t) /\ SetItems(o, more) /\ Edited /\ edits' = edits + 1 /\ edits \in Nat
      /\ toklist' = [toklist EXCEPT ![o] = Append(@, t)] /\ toklist \in [Objects -> Seq(TokenIds)]
      /\ slipped' = slipped
  BY DEF AddNamed, Edited, EditInv, PrTypeOK
<1>2. /\ toklist' \in [Objects -> Seq(TokenIds)] /\ toklist'[o] = Append(toklist[o], t)
      /\ \A q \in Objects \ {o} : toklist'[q] = toklist[q]
  BY <1>1, NewBehind
<1>3. t \in TokenIds /\ toklist[o] \in Seq(TokenIds) /\ Len(toklist[o]) \in Nat
  BY <1>1, BeforeEdit, NewBehind
<1>4. occ \in Seq(Occurrences) /\ Range(occ) = {[v |-> t, pos |-> Len(toklist[o])]}
  BY <1>3 DEF Occurrences, Range
<1>5. Exact(toklist'[o], occ)
  <2>1. Len(toklist[o]) + 1 \in DOMAIN toklist'[o] /\ toklist'[o][Len(toklist[o]) + 1] = t
    BY <1>2, <1>3
  <2> QED
    BY <1>4, <2>1 DEF Exact
<1>6. DOMAIN more = {n} /\ more[n] = occ /\ \A m \in DOMAIN more : more[m] \in Seq(Occurrences)
  BY <1>4
<1> HIDE DEF occ, more
<1>7. /\ tokdict' = [q \in Objects |-> tokdict'[q]]
      /\ \A k \in DOMAIN lists' : lists'[k] \in Seq(Occurrences)
      /\ Made'
      /\ \A q \in Objects \ {o} : Keys(q)' = Keys(q)
      /\ \A q \in Objects : \A k \in Keys(q) : lists'[k] = lists[k]
      /\ \A k \in Keys(o)' : k \in Keys(o) \/ lists'[k] = Old(o, n) \o occ
  <2>1. /\ tokdict' = [q \in Objects |-> tokdict'[q]]
        /\ \A k \in DOMAIN lists' : lists'[k] \in Seq(Occurrences)
        /\ Made'
        /\ \A q \in Objects \ {o} : Keys(q)' = Keys(q)
        /\ \A q \in Objects : \A k \in Keys(q) : lists'[k] = lists[k]
        /\ \A k \in Keys(o)' : \/ k \in Keys(o)
                               \/ \E m \in DOMAIN more : lists'[k] = Old(o, m) \o more[m]
    BY ZenonT(40), <1>1, <1>6, SetItemsFacts
  <2> QED
    BY <1>6, <2>1
<1>8. PrTypeOK'
  BY <1>1, <1>2, <1>7 DEF EditInv, PrTypeOK
<1>9. \A q \in Objects : Different(toklist'[q])
  BY <1>1, <1>2, NewBehind DEF EditInv
<1>10. ASSUME ~slipped, NEW k \in Keys(o)'
       PROVE  Exact(toklist'[o], lists'[k])
  <2>1. CASE k \in Keys(o)
    <3>1. /\ lists[k] \in Seq(Occurrences) /\ Exact(toklist[o], lists[k])
          /\ \A x \in Range(lists[k]) : x.v # t
      BY <1>1, <1>10, <2>1, BeforeEdit, NewBehind
    <3>2. lists'[k] = lists[k]
      BY <1>7, <2>1
    <3> QED
      BY <1>1, <1>2, <3>1, <3>2, NewBehind
  <2>2. CASE lists'[k] = Old(o, n) \o occ
    <3>1. /\ Old(o, n) \in Seq(Occurrences) /\ Exact(toklist[o], Old(o, n))
          /\ \A x \in Range(Old(o, n)) : x.v # t
      BY <1>1, <1>10, OldFacts, NewBehind
    <3>2. Exact(toklist'[o], Old(o, n))
      BY <1>1, <1>2, <3>1, NewBehind
    <3> QED
      BY <1>4, <1>5, <2>2, <3>1, <3>2, ExactJoin
  <2> QED
    BY <1>7, <2>1, <2>2
<1>11. ASSUME ~slipped, NEW q \in Objects \ {o}, NEW k \in Keys(q)
       PROVE  Exact(toklist'[q], lists'[k])
  BY <1>2, <1>7, <1>11, BeforeEdit
<1>12. OffsetsExact'
  BY <1>1, <1>7, <1>10, <1>11 DEF OffsetsExact
<1> QED
  BY <1>7, <1>8, <1>9, <1>12 DEF EditInv

\* Offsets that are moved in place: the lists of one object, and of no other when none is shared.
LEMMA ShiftFacts ==
  ASSUME EditInv, NEW o \in Objects, NEW f \in [Nat -> Nat], Shift(o, f), Edited, tokdict' = tokdict
  PROVE  /\ \A q \in Objects : Keys(q)' = Keys(q)
         /\ \A k \in DOMAIN lists' : lists'[k] \in Seq(Occurrences)
         /\ Made'
         /\ \A k \in Keys(o) : lists'[k] = Moved(lists[k], f)
         /\ ~Shared(o) => \A q \in Objects \ {o} : \A k \in Keys(q) : lists'[k] = lists[k]
<1>1. lists' = [k \in DOMAIN lists |-> IF k \in Keys(o) THEN Moved(lists[k], f) ELSE lists[k]]
  BY DEF Shift
<1>2. DOMAIN lists' = DOMAIN lists /\ edits' = edits + 1 /\ edits \in Nat
  BY <1>1 DEF Edited, EditInv, PrTypeOK
<1>3. \A q \in Objects : Keys(q)' = Keys(q)
  BY DEF Keys
<1>4. ASSUME NEW k \in DOMAIN lists
      PROVE  lists'[k] \in Seq(Occurrences)
  <2>1. lists[k] \in Seq(Occurrences)
    BY DEF EditInv, PrTypeOK
  <2>2. Moved(lists[k], f) \in Seq(Occurrences)
    BY <2>1, MovedFacts
  <2> QED
    BY <1>1, <2>1, <2>2
<1>5. Made'
  <2>1. ASSUME NEW k \in DOMAIN lists
        PROVE  k[1] \in Nat /\ k[1] < edits'
    <3>1. k[1] \in Nat /\ k[1] < edits
      BY DEF EditInv, Made
    <3> QED
      BY <1>2, <3>1
  <2> QED
    BY <1>2, <1>3, <2>1 DEF EditInv, Made
<1>6. \A k \in Keys(o) : lists'[k] = Moved(lists[k], f)
  BY <1>1 DEF EditInv, Made
<1>7. ASSUME ~Shared(o), NEW q \in Objects \ {o}, NEW k \in Keys(q)
      PROVE  lists'[k] = lists[k]
  <2>1. k \notin Keys(o) /\ k \in DOMAIN lists
    BY <1>7 DEF Shared, EditInv, Made
  <2> QED
    BY <1>1, <2>1
<1> QED
  BY <1>2, <1>3, <1>4, <1>5, <1>6, <1>7

LEMMA PlaceFacts ==
  ASSUME NEW n \in Nat, NEW i \in Int
  PROVE  /\ Place(n, i) \in 0..n
         /\ \A p \in Nat : p # i /\ ~(i < 0 /\ p < Place(n, i)) /\ p < n => (p > i <=> p >= Place(n, i))
BY DEF Place

LEMMA KeepsInsert ==
  ASSUME EditInv, NEW o \in Objects, NEW i \in Int, NEW t, insert(o, i, t)
  PROVE  EditInv'
<1> DEFINE f == [p \in Nat |-> IF p > i THEN p + 1 ELSE p]
           place == Place(Len(toklist[o]), i)
<1>1. /\ Edited /\ Unknown(t)
      /\ toklist' = [toklist EXCEPT ![o] = InsertAt(@, Place(Len(@), i) + 1, t)] /\ Shift(o, f)
      /\ slipped' = (slipped \/ Shared(o) \/ Stays(o, i)) /\ tokdict' = tokdict
      /\ toklist \in [Objects -> Seq(TokenIds)] /\ slipped \in BOOLEAN
      /\ edits' = edits + 1 /\ edits \in Nat
  BY DEF insert, Edited, EditInv, PrTypeOK
<1>2. t \in TokenIds /\ t \notin Known(o) /\ t \notin Range(toklist[o])
  BY <1>1, NewBehind
<1>3. /\ toklist[o] \in Seq(TokenIds) /\ Different(toklist[o]) /\ Len(toklist[o]) \in Nat
      /\ place \in 0..Len(toklist[o])
  <2>1. toklist[o] \in Seq(TokenIds) /\ Different(toklist[o]) /\ Len(toklist[o]) \in Nat
    BY BeforeEdit
  <2> QED
    BY <2>1, PlaceFacts
<1>4. /\ toklist'[o] = InsertAt(toklist[o], place + 1, t)
      /\ \A q \in Objects \ {o} : toklist'[q] = toklist[q]
      /\ DOMAIN toklist' = Objects /\ toklist' = [q \in Objects |-> toklist'[q]]
  BY <1>1
<1> HIDE DEF place
<1>5. /\ InsertAt(toklist[o], place + 1, t) \in Seq(TokenIds)
      /\ Different(InsertAt(toklist[o], place + 1, t))
  BY <1>2, <1>3, InsertFacts, InsertDifferent
<1>6. toklist' \in [Objects -> Seq(TokenIds)]
  BY <1>1, <1>4, <1>5
<1>7. f \in [Nat -> Nat]
  OBVIOUS
<1>8. /\ \A q \in Objects : Keys(q)' = Keys(q)
      /\ \A k \in DOMAIN lists' : lists'[k] \in Seq(Occurrences)
      /\ Made'
      /\ \A k \in Keys(o) : lists'[k] = Moved(lists[k], f)
      /\ ~Shared(o) => \A q \in Objects \ {o} : \A k \in Keys(q) : lists'[k] = lists[k]
  BY <1>1, <1>7, ShiftFacts
<1>9. PrTypeOK'
  BY <1>1, <1>6, <1>8 DEF EditInv, PrTypeOK
<1>10. \A q \in Objects : Different(toklist'[q])
  BY <1>4, <1>5 DEF EditInv
<1>11. ASSUME ~slipped, ~Stays(o, i), NEW k \in Keys(o)
       PROVE  Exact(toklist'[o], lists'[k])
  <2>1. lists[k] \in Seq(Occurrences) /\ Exact(toklist[o], lists[k])
    BY <1>11, BeforeEdit
  <2>2. ASSUME NEW x \in Range(lists[k])
        PROVE  x.v # t /\ (x.pos < Len(toklist[o]) => (x.pos > i <=> x.pos >= place))
    <3>1. x.pos \in Nat
      <4>1. PICK j \in DOMAIN lists[k] : x = lists[k][j]
        BY DEF Range
      <4>2. lists[k][j] \in Occurrences
        BY <2>1
      <4> QED
        BY <4>1, <4>2 DEF Occurrences
    <3>2. x.pos # i /\ ~(i < 0 /\ x.pos < place)
      BY <1>11 DEF Stays, place
    <3>3. x.pos < Len(toklist[o]) => (x.pos > i <=> x.pos >= place)
      BY <1>3, <3>1, <3>2, PlaceFacts DEF place
    <3> QED
      BY <1>2, <3>3, BeforeEdit
  <2>3. Exact(InsertAt(toklist[o], place + 1, t), Moved(lists[k], f))
    BY <1>2, <1>3, <2>1, <2>2, ExactInsert
  <2> QED
    BY <1>4, <1>8, <2>3
<1>12. ASSUME ~slipped, ~Shared(o), NEW q \in Objects \ {o}, NEW k \in Keys(q)
       PROVE  Exact(toklist'[q], lists'[k])
  BY <1>4, <1>8, <1>12, BeforeEdit
<1>13. OffsetsExact'
  BY <1>1, <1>8, <1>11, <1>12 DEF OffsetsExact
<1> QED
  BY <1>8, <1>9, <1>10, <1>13 DEF EditInv

LEMMA KeepsSetToken ==
  ASSUME EditInv, NEW o \in Objects, NEW i \in Nat, NEW t, SetToken(o, i, t)
  PROVE  EditInv'
<1> DEFINE s == toklist[o]
           w == [s EXCEPT ![i + 1] = t]
<1>1. /\ Unknown(t) /\ edits' = edits + 1 /\ edits \in Nat /\ i + 1 \in DOMAIN toklist[o]
      /\ toklist' = [toklist EXCEPT ![o] = [@ EXCEPT ![i + 1] = t]] /\ toklist \in [Objects -> Seq(TokenIds)]
      /\ tokdict' = tokdict /\ lists' = lists /\ slipped' = slipped
  BY DEF SetToken, Edited, EditInv, PrTypeOK
<1>2. /\ toklist'[o] = w /\ \A q \in Objects \ {o} : toklist'[q] = toklist[q]
      /\ DOMAIN toklist' = Objects /\ toklist' = [q \in Objects |-> toklist'[q]]
  BY <1>1
<1>3. /\ t \in TokenIds /\ t \notin Range(s) /\ s \in Seq(TokenIds) /\ Different(s)
      /\ \A k \in Keys(o) : \A x \in Range(lists[k]) : x.v # t
  BY <1>1, NewBehind, BeforeEdit
<1> HIDE DEF s
<1>4. w \in Seq(TokenIds) /\ DOMAIN w = DOMAIN s /\ \A j \in DOMAIN s : w[j] = IF j = i + 1 THEN t ELSE s[j]
  BY <1>1, <1>3 DEF s
<1> HIDE DEF w
<1>5. Different(w)
  BY <1>3, <1>4 DEF Different, Range
<1>6. toklist' \in [Objects -> Seq(TokenIds)] /\ \A q \in Objects : Different(toklist'[q])
  BY <1>1, <1>2, <1>4, <1>5 DEF EditInv
<1>7. PrTypeOK'
  BY <1>1, <1>6 DEF EditInv, PrTypeOK
<1>8. \A q \in Objects : Keys(q)' = Keys(q)
  BY <1>1 DEF Keys
<1>9. Made'
  BY <1>1, <1>8 DEF EditInv, Made
<1>10. ASSUME ~slipped, NEW k \in Keys(o)
       PROVE  Exact(w, lists[k])
  <2>1. Exact(s, lists[k])
    BY <1>10, BeforeEdit DEF s
  <2> SUFFICES ASSUME NEW x \in Range(lists[k]), x.v \in Range(w)
               PROVE  x.pos + 1 \in DOMAIN w /\ w[x.pos + 1] = x.v
    BY DEF Exact
  <2>2. PICK j \in DOMAIN w : x.v = w[j]
    BY DEF Range
  <2>3. j \in DOMAIN s /\ j # i + 1 /\ x.v = s[j]
    BY <1>3, <1>4, <2>2
  <2>4. x.pos + 1 \in DOMAIN s /\ s[x.pos + 1] = x.v
    BY <2>1, <2>3 DEF Exact, Range
  <2>5. x.pos + 1 = j
    BY <1>3, <2>3, <2>4 DEF Different
  <2> QED
    BY <1>4, <2>3, <2>5
<1>11. ASSUME ~slipped, NEW q \in Objects \ {o}, NEW k \in Keys(q)
       PROVE  Exact(toklist'[q], lists[k])
  BY <1>2, <1>11, BeforeEdit
<1>12. OffsetsExact'
  <2>1. ASSUME ~slipped, NEW q \in Objects, NEW k \in Keys(q)
        PROVE  Exact(toklist'[q], lists[k])
    <3>1. CASE q = o
      BY <1>2, <1>10, <2>1, <3>1
    <3> QED
      BY <1>11, <2>1, <3>1
  <2> QED
    BY <1>1, <1>8, <2>1 DEF OffsetsExact
<1> QED
  BY <1>6, <1>7, <1>9, <1>12 DEF EditInv

LEMMA KeepsSetByName ==
  ASSUME EditInv, NEW o \in Objects, NEW t, NEW n, SetByName(o, n, t)
  PROVE  EditInv'
<1> DEFINE occ == << [v |-> t, pos |-> 0] >>
           more == [m \in {n} |-> occ]
           elsewhere == \E j \in DOMAIN toklist[o] : toklist[o][j] = t /\ j # 1
<1>1. /\ t \in TokenIds /\ SetItems(o, more) /\ Edited /\ edits' = edits + 1 /\ edits \in Nat
      /\ toklist' = toklist /\ toklist \in [Objects -> Seq(TokenIds)]
      /\ slipped' = (slipped \/ elsewhere) /\ slipped' \in BOOLEAN
  BY DEF SetByName, Edited, EditInv, PrTypeOK
<1>2. occ \in Seq(Occurrences) /\ Range(occ) = {[v |-> t, pos |-> 0]}
  BY <1>1 DEF Occurrences, Range
<1>3. ~elsewhere => Exact(toklist[o], occ)
  BY <1>2 DEF Exact, Range
<1>4. DOMAIN more = {n} /\ more[n] = occ /\ \A m \in DOMAIN more : more[m] \in Seq(Occurrences)
  BY <1>2
<1> HIDE DEF occ, more, elsewhere
<1>5. /\ tokdict' = [q \in Objects |-> tokdict'[q]]
      /\ \A k \in DOMAIN lists' : lists'[k] \in Seq(Occurrences)
      /\ Made'
      /\ \A q \in Objects \ {o} : Keys(q)' = Keys(q)
      /\ \A q \in Objects : \A k \in Keys(q) : lists'[k] = lists[k]
      /\ \A k \in Keys(o)' : k \in Keys(o) \/ lists'[k] = Old(o, n) \o occ
  <2>1. /\ tokdict' = [q \in Objects |-> tokdict'[q]]
        /\ \A k \in DOMAIN lists' : lists'[k] \in Seq(Occurrences)
        /\ Made'
        /\ \A q \in Objects \ {o} : Keys(q)' = Keys(q)
        /\ \A q \in Objects : \A k \in Keys(q) : lists'[k] = lists[k]
        /\ \A k \in Keys(o)' : \/ k \in Keys(o)
                               \/ \E m \in DOMAIN more : lists'[k] = Old(o, m) \o more[m]
    BY ZenonT(40), <1>1, <1>4, SetItemsFacts
  <2> QED
    BY <1>4, <2>1
<1>6. PrTypeOK'
  BY <1>1, <1>5 DEF EditInv, PrTypeOK
<1>7. \A q \in Objects : Different(toklist'[q])
  BY <1>1 DEF EditInv
<1>8. ASSUME ~slipped, ~elsewhere, NEW k \in Keys(o)'
      PROVE  Exact(toklist[o], lists'[k])
  <2>1. CASE k \in Keys(o)
    BY <1>5, <1>8, <2>1, BeforeEdit
  <2>2. CASE lists'[k] = Old(o, n) \o occ
    <3>1. Old(o, n) \in Seq(Occurrences) /\ Exact(toklist[o], Old(o, n))
      BY <1>8, OldFacts
    <3> QED
      BY <1>2, <1>3, <1>8, <2>2, <3>1, ExactJoin
  <2> QED
    BY <1>5, <2>1, <2>2
<1>9. ASSUME ~slipped, NEW q \in Objects \ {o}, NEW k \in Keys(q)
      PROVE  Exact(toklist[q], lists'[k])
  BY <1>5, <1>9, BeforeEdit
<1>10. OffsetsExact'
  BY <1>1, <1>5, <1>8, <1>9 DEF OffsetsExact
<1> QED
  BY <1>5, <1>6, <1>7, <1>10 DEF EditInv

LEMMA KeepsDelItem ==
  ASSUME EditInv, NEW o \in Objects, NEW i \in Nat, DelItem(o, i)
  PROVE  EditInv'
<1> DEFINE f == [p \in Nat |-> AfterDelete(p, i)]
<1>1. /\ Edited /\ i + 1 \in DOMAIN toklist[o]
      /\ toklist' = [toklist EXCEPT ![o] = RemoveAt(@, i + 1)] /\ Shift(o, f)
      /\ slipped' = (slipped \/ Shared(o)) /\ tokdict' = tokdict
      /\ toklist \in [Objects -> Seq(TokenIds)] /\ slipped \in BOOLEAN
      /\ edits' = edits + 1 /\ edits \in Nat
  BY DEF DelItem, Edited, EditInv, PrTypeOK
<1>2. toklist[o] \in Seq(TokenIds) /\ Different(toklist[o]) /\ i + 1 \in 1..Len(toklist[o])
  BY <1>1, BeforeEdit
<1>3. RemoveAt(toklist[o], i + 1) \in Seq(TokenIds) /\ Different(RemoveAt(toklist[o], i + 1))
  BY <1>2, RemoveFacts, RemoveDifferent
<1>4. /\ toklist' \in [Objects -> Seq(TokenIds)] /\ toklist'[o] = RemoveAt(toklist[o], i + 1)
      /\ \A q \in Objects \ {o} : toklist'[q] = toklist[q]
  BY <1>1, <1>3
<1>5. f \in [Nat -> Nat]
  BY DEF AfterDelete
<1>6. /\ \A q \in Objects : Keys(q)' = Keys(q)
      /\ \A k \in DOMAIN lists' : lists'[k] \in Seq(Occurrences)
      /\ Made'
      /\ \A k \in Keys(o) : lists'[k] = Moved(lists[k], f)
      /\ ~Shared(o) => \A q \in Objects \ {o} : \A k \in Keys(q) : lists'[k] = lists[k]
  BY <1>1, <1>5, ShiftFacts
<1>7. PrTypeOK'
  BY <1>1, <1>4, <1>6 DEF EditInv, PrTypeOK
<1>8. \A q \in Objects : Different(toklist'[q])
  BY <1>3, <1>4 DEF EditInv
<1>9. ASSUME ~slipped, NEW k \in Keys(o)
      PROVE  Exact(toklist'[o], lists'[k])
  <2>1. lists[k] \in Seq(Occurrences) /\ Exact(toklist[o], lists[k])
    BY <1>9, BeforeEdit
  <2>2. Exact(RemoveAt(toklist[o], i + 1), Moved(lists[k], f))
    BY <1>2, <2>1, ExactDelete
  <2> QED
    BY <1>4, <1>6, <2>2
<1>10. ASSUME ~slipped, ~Shared(o), NEW q \in Objects \ {o}, NEW k \in Keys(q)
       PROVE  Exact(toklist'[q], lists'[k])
  BY <1>4, <1>6, <1>10, BeforeEdit
<1>11. OffsetsExact'
  BY <1>1, <1>6, <1>9, <1>10 DEF OffsetsExact
<1> QED
  BY <1>6, <1>7, <1>8, <1>11 DEF EditInv

\* The lists that were made stay made.
LEMMA MadeLater ==
  ASSUME EditInv, lists' = lists, edits' = edits + 1,
         \A q \in Objects : \A k \in Keys(q)' : \E r \in Objects : k \in Keys(r)
  PROVE  Made'
<1>1. ASSUME NEW k \in DOMAIN lists
      PROVE  k[1] \in Nat /\ k[1] < edits + 1
  <2>1. k[1] \in Nat /\ k[1] < edits /\ edits \in Nat
    BY DEF EditInv, Made, PrTypeOK
  <2> QED
    BY <2>1
<1>2. \A q \in Objects : Keys(q)' \subseteq DOMAIN lists
  BY DEF EditInv, Made
<1> QED
  BY <1>1, <1>2 DEF Made

LEMMA KeepsDelName ==
  ASSUME EditInv, NEW o \in Objects, NEW n, DelName(o, n)
  PROVE  EditInv'
<1>1. /\ tokdict' = [tokdict EXCEPT ![o] = [m \in DOMAIN tokdict[o] \ {n} |-> tokdict[o][m]]]
      /\ tokdict = [q \in Objects |-> tokdict[q]] /\ edits' = edits + 1 /\ edits \in Nat
      /\ toklist' = toklist /\ lists' = lists /\ slipped' = slipped
  BY DEF DelName, Edited, EditInv, PrTypeOK
<1>2. /\ tokdict' = [q \in Objects |-> tokdict'[q]]
      /\ tokdict'[o] = [m \in DOMAIN tokdict[o] \ {n} |-> tokdict[o][m]]
      /\ \A q \in Objects \ {o} : tokdict'[q] = tokdict[q]
  BY <1>1
<1>3. \A q \in Objects : Keys(q)' \subseteq Keys(q)
  BY <1>2 DEF Keys
<1>4. PrTypeOK'
  BY <1>1, <1>2 DEF EditInv, PrTypeOK
<1>5. Made'
  BY <1>1, <1>3, MadeLater
<1>6. OffsetsExact'
  BY <1>1, <1>3 DEF EditInv, OffsetsExact
<1> QED
  BY <1>1, <1>4, <1>5, <1>6 DEF EditInv

LEMMA KeepsClear ==
  ASSUME EditInv, NEW o \in Objects, clear(o)
  PROVE  EditInv'
<1>1. /\ toklist' = [toklist EXCEPT ![o] = <<>>] /\ tokdict' = [tokdict EXCEPT ![o] = [n \in {} |-> 0]]
      /\ tokdict = [q \in Objects |-> tokdict[q]] /\ toklist \in [Objects -> Seq(TokenIds)]
      /\ edits' = edits + 1 /\ edits \in Nat /\ lists' = lists /\ slipped' = slipped
  BY DEF clear, Edited, EditInv, PrTypeOK
<1>2. /\ tokdict' = [q \in Objects |-> tokdict'[q]] /\ tokdict'[o] = [n \in {} |-> 0]
      /\ \A q \in Objects \ {o} : tokdict'[q] = tokdict[q] /\ toklist'[q] = toklist[q]
      /\ toklist' \in [Objects -> Seq(TokenIds)] /\ toklist'[o] = <<>>
  <2>1. /\ tokdict' = [q \in Objects |-> tokdict'[q]] /\ tokdict'[o] = [n \in {} |-> 0]
        /\ \A q \in Objects \ {o} : tokdict'[q] = tokdict[q]
    BY <1>1
  <2>2. <<>> \in Seq(TokenIds)
    OBVIOUS
  <2>3. /\ toklist' \in [Objects -> Seq(TokenIds)] /\ toklist'[o] = <<>>
        /\ \A q \in Objects \ {o} : toklist'[q] = toklist[q]
    BY <1>1, <2>2
  <2> QED
    BY <2>1, <2>3
<1>3. Keys(o)' = {} /\ \A q \in Objects \ {o} : Keys(q)' = Keys(q)
  BY <1>2 DEF Keys
<1>4. PrTypeOK'
  BY <1>1, <1>2 DEF EditInv, PrTypeOK
<1>5. Made'
  BY <1>1, <1>3, MadeLater
<1>6. \A q \in Objects : Different(toklist'[q])
  BY <1>2 DEF EditInv, Different
<1>7. OffsetsExact'
  BY <1>1, <1>2, <1>3 DEF EditInv, OffsetsExact
<1> QED
  BY <1>4, <1>5, <1>6, <1>7 DEF EditInv

LEMMA KeepsCopy ==
  ASSUME EditInv, NEW o \in Objects, NEW p \in Objects, copy(o, p)
  PROVE  EditInv'
<1>1. /\ toklist' = [toklist EXCEPT ![p] = toklist[o]] /\ tokdict' = [tokdict EXCEPT ![p] = tokdict[o]]
      /\ tokdict = [q \in Objects |-> tokdict[q]] /\ toklist \in [Objects -> Seq(TokenIds)]
      /\ edits' = edits + 1 /\ edits \in Nat /\ lists' = lists /\ slipped' = slipped
  BY DEF copy, Edited, EditInv, PrTypeOK
<1>2. /\ tokdict' = [q \in Objects |-> tokdict'[q]] /\ toklist' \in [Objects -> Seq(TokenIds)]
      /\ \A q \in Objects : \E r \in Objects : tokdict'[q] = tokdict[r] /\ toklist'[q] = toklist[r]
  BY <1>1
<1>3. ASSUME NEW q \in Objects
      PROVE  \E r \in Objects : Keys(q)' = Keys(r) /\ toklist'[q] = toklist[r]
  <2>1. PICK r \in Objects : tokdict'[q] = tokdict[r] /\ toklist'[q] = toklist[r]
    BY <1>2
  <2>2. Keys(q)' = Keys(r)
    BY <2>1 DEF Keys
  <2> QED
    BY <2>1, <2>2
<1>4. PrTypeOK'
  BY <1>1, <1>2 DEF EditInv, PrTypeOK
<1>5. Made'
  BY <1>1, <1>3, MadeLater
<1>6. \A q \in Objects : Different(toklist'[q])
  BY <1>2 DEF EditInv
<1>7. OffsetsExact'
  BY <1>1, <1>3 DEF EditInv, OffsetsExact
<1> QED
  BY <1>4, <1>5, <1>6, <1>7 DEF EditInv

LEMMA KeepsExtend ==
  ASSUME EditInv, NEW o \in Objects, NEW p \in Objects, extend(o, p)
  PROVE  EditInv'
<1> DEFINE f == [q \in Nat |-> q + Len(toklist[o])]
           more == [n \in DOMAIN tokdict[p] |-> Moved(lists[tokdict[p][n]], f)]
<1>1. /\ SetItems(o, more) /\ Edited /\ edits' = edits + 1 /\ edits \in Nat
      /\ toklist' = [toklist EXCEPT ![o] = @ \o toklist[p]] /\ toklist \in [Objects -> Seq(TokenIds)]
      /\ slipped' = slipped /\ Known(o) \cap Known(p) = {}
  BY DEF extend, Edited, EditInv, PrTypeOK
<1>2. /\ toklist[o] \in Seq(TokenIds) /\ toklist[p] \in Seq(TokenIds) /\ Len(toklist[o]) \in Nat
      /\ Different(toklist[o]) /\ Different(toklist[p])
      /\ Range(toklist[o]) \subseteq Known(o) /\ Range(toklist[p]) \subseteq Known(p)
  BY BeforeEdit
<1>3. toklist[o] \o toklist[p] \in Seq(TokenIds) /\ Different(toklist[o] \o toklist[p])
  <2>1. Range(toklist[o]) \cap Range(toklist[p]) = {}
    BY <1>1, <1>2
  <2> QED
    BY <1>2, <2>1, JoinFacts, JoinDifferent
<1>4. /\ toklist' \in [Objects -> Seq(TokenIds)] /\ toklist'[o] = toklist[o] \o toklist[p]
      /\ \A q \in Objects \ {o} : toklist'[q] = toklist[q]
  BY <1>1, <1>3
<1>5. f \in [Nat -> Nat]
  BY <1>2
<1>6. ASSUME NEW n \in DOMAIN tokdict[p]
      PROVE  /\ more[n] = Moved(lists[tokdict[p][n]], f) /\ tokdict[p][n] \in Keys(p)
             /\ lists[tokdict[p][n]] \in Seq(Occurrences) /\ more[n] \in Seq(Occurrences)
  <2>1. tokdict[p][n] \in Keys(p)
    BY DEF Keys
  <2>2. lists[tokdict[p][n]] \in Seq(Occurrences)
    BY <2>1, BeforeEdit
  <2>3. Moved(lists[tokdict[p][n]], f) \in Seq(Occurrences)
    BY <1>5, <2>2, MovedFacts
  <2> QED
    BY <2>1, <2>2, <2>3
<1>7. DOMAIN more = DOMAIN tokdict[p]
  OBVIOUS
<1>8. ASSUME ~slipped, NEW n \in DOMAIN tokdict[p]
      PROVE  Exact(toklist'[o], more[n])
  <2>1. /\ Exact(toklist[p], lists[tokdict[p][n]])
        /\ \A x \in Range(lists[tokdict[p][n]]) : x.v \notin Range(toklist[o])
    BY <1>1, <1>2, <1>6, <1>8, BeforeEdit
  <2>2. Exact(toklist[o] \o toklist[p], Moved(lists[tokdict[p][n]], f))
    BY <1>2, <1>6, <2>1, ExactBefore
  <2> QED
    BY <1>4, <1>6, <2>2
<1>9. ASSUME ~slipped, NEW occ \in Seq(Occurrences), Exact(toklist[o], occ),
             \A x \in Range(occ) : x.v \in Known(o)
      PROVE  Exact(toklist'[o], occ)
  <2>1. \A x \in Range(occ) : x.v \notin Range(toklist[p])
    BY <1>1, <1>2, <1>9
  <2> QED
    BY <1>2, <1>4, <1>9, <2>1, ExactBehind
<1> HIDE DEF f, more
<1>10. /\ tokdict' = [q \in Objects |-> tokdict'[q]]
       /\ \A k \in DOMAIN lists' : lists'[k] \in Seq(Occurrences)
       /\ Made'
       /\ \A q \in Objects \ {o} : Keys(q)' = Keys(q)
       /\ \A q \in Objects : \A k \in Keys(q) : lists'[k] = lists[k]
       /\ \A k \in Keys(o)' : \/ k \in Keys(o)
                              \/ \E n \in DOMAIN more : lists'[k] = Old(o, n) \o more[n]
  <2>1. \A n \in DOMAIN more : more[n] \in Seq(Occurrences)
    BY <1>6, <1>7
  <2>2. SetItems(o, more) /\ Edited
    BY <1>1
  <2> QED
    BY <2>1, <2>2, SetItemsFacts
<1>11. PrTypeOK'
  BY <1>1, <1>4, <1>10 DEF EditInv, PrTypeOK
<1>12. \A q \in Objects : Different(toklist'[q])
  BY <1>3, <1>4 DEF EditInv
<1>13. ASSUME ~slipped, NEW k \in Keys(o)'
       PROVE  Exact(toklist'[o], lists'[k])
  <2>1. CASE k \in Keys(o)
    BY <1>9, <1>10, <1>13, <2>1, BeforeEdit
  <2>2. CASE \E n \in DOMAIN more : lists'[k] = Old(o, n) \o more[n]
    <3>1. PICK n \in DOMAIN tokdict[p] : lists'[k] = Old(o, n) \o more[n]
      BY <1>7, <2>2
    <3>2. /\ Old(o, n) \in Seq(Occurrences) /\ Exact(toklist[o], Old(o, n))
          /\ \A x \in Range(Old(o, n)) : x.v \in Known(o)
      BY <1>13, OldFacts
    <3>3. Exact(toklist'[o], Old(o, n))
      BY <1>9, <1>13, <3>2
    <3> QED
      BY <1>6, <1>8, <1>13, <3>1, <3>2, <3>3, ExactJoin
  <2> QED
    BY <1>10, <2>1, <2>2
<1>14. ASSUME ~slipped, NEW q \in Objects \ {o}, NEW k \in Keys(q)
       PROVE  Exact(toklist'[q], lists'[k])
  BY <1>4, <1>10, <1>14, BeforeEdit
<1>15. OffsetsExact'
  BY <1>1, <1>10, <1>13, <1>14 DEF OffsetsExact
<1> QED
  BY <1>10, <1>11, <1>12, <1>15 DEF EditInv

\* Every edit, of either object, keeps EditInv.
THEOREM EditInvariant == PrSpec => []EditInv
<1>1. PrInit => EditInv
  <2> SUFFICES ASSUME PrInit
               PROVE  EditInv
    OBVIOUS
  <2>1. <<>> \in Seq(TokenIds) /\ DOMAIN [n \in {} |-> 0] = {} /\ DOMAIN [k \in {} |-> <<>>] = {}
    OBVIOUS
  <2>2. PrTypeOK
    BY <2>1 DEF PrInit, PrTypeOK
  <2>3. \A o \in Objects : Keys(o) = {} /\ Different(toklist[o])
    BY <2>1 DEF PrInit, Keys, Different
  <2>4. Made
    BY <2>1, <2>3 DEF PrInit, Made
  <2> QED
    BY <2>2, <2>3, <2>4 DEF EditInv, OffsetsExact
<1>2. EditInv /\ [PrNext]_editVars => EditInv'
  <2> SUFFICES ASSUME EditInv, [PrNext]_editVars
               PROVE  EditInv'
    OBVIOUS
  <2>1. CASE PrNext
    <3>1. PICK o \in Objects :
            \/ \E t \in TokenIds : append(o, t) \/ \E i \in -MaxEdits..MaxEdits : insert(o, i, t)
            \/ \E t \in TokenIds, n \in NameIds : AddNamed(o, t, n) \/ SetByName(o, n, t)
            \/ \E t \in TokenIds, i \in 0..MaxEdits : SetToken(o, i, t)
            \/ \E i \in 0..MaxEdits : DelItem(o, i)
            \/ (\E n \in NameIds : DelName(o, n)) \/ clear(o)
            \/ \E p \in Objects : copy(o, p) \/ extend(o, p)
      BY <2>1 DEF PrNext
    <3>2. \A i \in 0..MaxEdits : i \in Nat
      OBVIOUS
    <3>3. \A i \in -MaxEdits..MaxEdits : i \in Int
      OBVIOUS
    <3> QED
      BY <3>1, <3>2, <3>3, KeepsAppend, KeepsInsert, KeepsAddNamed, KeepsSetByName, KeepsSetToken,
         KeepsDelItem, KeepsDelName, KeepsClear, KeepsCopy, KeepsExtend
  <2>2. CASE UNCHANGED editVars
    BY <2>2 DEF editVars, EditInv, PrTypeOK, Made, OffsetsExact, Keys
  <2> QED
    BY <2>1, <2>2
<1> QED
  BY <1>1, <1>2, PTL DEF PrSpec

\* The offset of a named result is the place of its token, for any number of tokens, names
\* and edits.
THEOREM OffsetsStayExact == PrSpec => []OffsetsExact
<1>1. EditInv => OffsetsExact
  BY DEF EditInv
<1> QED
  BY <1>1, EditInvariant, PTL
=============================================================================
