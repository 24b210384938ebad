------------------------------ MODULE EggCache ------------------------------
(* Resources of zipped eggs: ZipProvider and ResourceManager extract them into a   *)
(* cache directory that all processes of the user share                           *)
(* (src/src/pkg_resources/__init__.py). A path in the cache is made of the name     *)
(* of the egg, not of the place it was found in.                                   *)
EXTENDS Naturals, Sequences, FiniteSets, FiniteSetsExt, SequencesExt

CONSTANTS
  Procs,
  Eggs,          \* contents an egg of this name may have
  Dirs,          \* directory in the archive -> sequence of what is in it
  Eager,         \* the files of native_libs.txt and eager_resources.txt, in order
  Resources,     \* what is asked for: files and directories
  MaxCalls       \* bound: calls of get_resource_filename

VARIABLES
  nt,        \* the system does not rename over a file
  egg,       \* process -> content of its egg
  real,      \* file -> content in the cache: "none", an egg, or "part"
  tmp,       \* process -> content of its temporary file, or "none"
  todo,      \* process -> files the call still extracts
  promised,     \* process -> files the last call promised
  cpc,        \* process -> "idle", "check", "write", "rename", "retry", "unlink", "again", "failed", "gone"
  calls, short   \* bound counter; history: a write() wrote less than it was given

cacheVars == <<nt, egg, real, tmp, todo, promised, cpc, calls, short>>

Names == DOMAIN Dirs \cup UNION {Range(Dirs[d]) : d \in DOMAIN Dirs}
Files == Names \ DOMAIN Dirs

\* _index and _extract_resource: a directory stands for all that is in it
Expand[r \in Names] == IF r \in Files THEN <<r>>
                       ELSE FoldLeft(LAMBDA acc, c : acc \o Expand[c], <<>>, Dirs[r])

\* what can be asked for and what is eager are files of the archive; a directory is in
\* _index because of a file under it
ASSUME CacheAssumption ==
  /\ Eager \in Seq(Files)
  /\ \A r \in Resources : r \in Names /\ Expand[r] \in Seq(Files) /\ Expand[r] # <<>>
  /\ "none" \notin Eggs /\ "part" \notin Eggs /\ MaxCalls \in Nat

CacheInit ==
  /\ nt \in BOOLEAN /\ egg \in [Procs -> Eggs]
  /\ real \in [Files -> {"none"} \cup Eggs]      \* what earlier runs left
  /\ tmp = [p \in Procs |-> "none"] /\ todo = [p \in Procs |-> <<>>] /\ promised = [p \in Procs |-> {}]
  /\ cpc = [p \in Procs |-> "idle"] /\ calls = 0 /\ short = FALSE

\* get_resource_filename: an eager resource brings all of them
get_resource_filename(p, r) ==
  LET files == (IF Contains(Eager, r) THEN Eager ELSE <<>>) \o Expand[r]
  IN  /\ cpc[p] = "idle" /\ calls < MaxCalls /\ calls' = calls + 1
      /\ todo' = [todo EXCEPT ![p] = files] /\ promised' = [promised EXCEPT ![p] = Range(files)]
      /\ cpc' = [cpc EXCEPT ![p] = "check"]
      /\ UNCHANGED <<nt, egg, real, tmp, short>>

At(p) == Head(todo[p])

\* the file is there: the next one, or the call returns
Extracted(p) ==
  /\ todo' = [todo EXCEPT ![p] = Tail(@)]
  /\ cpc' = [cpc EXCEPT ![p] = IF Len(todo[p]) = 1 THEN "idle" ELSE "check"]

\* _is_current: size, time and content as in the egg
Current(p) == real[At(p)] = egg[p]

CheckCache(p) ==
  /\ cpc[p] = "check"
  /\ IF Current(p) THEN Extracted(p) ELSE cpc' = [cpc EXCEPT ![p] = "write"] /\ UNCHANGED todo
  /\ UNCHANGED <<nt, egg, real, tmp, promised, calls, short>>

\* mutant: the file is written where it belongs
MutWriteTemp(p) ==
  /\ cpc[p] = "write" /\ cpc' = [cpc EXCEPT ![p] = "rename"]
  /\ tmp' = [tmp EXCEPT ![p] = egg[p]] /\ real' = [real EXCEPT ![At(p)] = "part"]
  /\ UNCHANGED <<nt, egg, todo, promised, calls, short>>

\* _mkstemp, os.write, whose count is not looked at, close, utime, postprocess
WriteTemp(p) ==
  /\ cpc[p] = "write" /\ cpc' = [cpc EXCEPT ![p] = "rename"]
  /\ \/ tmp' = [tmp EXCEPT ![p] = egg[p]] /\ UNCHANGED short
     \/ tmp' = [tmp EXCEPT ![p] = "part"] /\ short' = TRUE
  /\ UNCHANGED <<nt, egg, real, todo, promised, calls>>

\* rename in the first try, and again after unlink
Rename(p) ==
  /\ cpc[p] \in {"rename", "again"}
  /\ IF nt /\ real[At(p)] # "none"
     THEN /\ cpc' = [cpc EXCEPT ![p] = IF @ = "rename" THEN "retry" ELSE "failed"]
          /\ UNCHANGED <<real, tmp, todo>>
     ELSE /\ real' = [real EXCEPT ![At(p)] = tmp[p]] /\ tmp' = [tmp EXCEPT ![p] = "none"]
          /\ Extracted(p)
  /\ UNCHANGED <<nt, egg, promised, calls, short>>

\* the rename failed: isfile, and current by now, or to be removed first
Retry(p) ==
  /\ cpc[p] = "retry"
  /\ IF real[At(p)] = "none" THEN cpc' = [cpc EXCEPT ![p] = "failed"] /\ UNCHANGED todo
     ELSE IF Current(p) THEN Extracted(p)
     ELSE cpc' = [cpc EXCEPT ![p] = "unlink"] /\ UNCHANGED todo
  /\ UNCHANGED <<nt, egg, real, tmp, promised, calls, short>>

Unlink(p) ==
  /\ cpc[p] = "unlink"
  /\ IF real[At(p)] = "none" THEN cpc' = [cpc EXCEPT ![p] = "failed"]
     ELSE cpc' = [cpc EXCEPT ![p] = "again"]
  /\ real' = [real EXCEPT ![At(p)] = "none"]
  /\ UNCHANGED <<nt, egg, tmp, todo, promised, calls, short>>

\* the process ends, wherever it is; its temporary file stays
Crash(p) ==
  /\ cpc[p] \notin {"idle", "gone"} /\ cpc' = [cpc EXCEPT ![p] = "gone"]
  /\ UNCHANGED <<nt, egg, real, tmp, todo, promised, calls, short>>

CacheNext ==
  \E p \in Procs :
    \/ \E r \in Resources : get_resource_filename(p, r)
    \/ CheckCache(p) \/ WriteTemp(p) \/ Rename(p) \/ Retry(p) \/ Unlink(p) \/ Crash(p)

CacheSpec == CacheInit /\ [][CacheNext]_cacheVars

-----------------------------------------------------------------------------
\* The file of a resource in the cache is always whole, or not there, whatever processes
\* extract at the same time and wherever one is stopped; only a short write is not noticed.
NoTornFile == \A f \in Files : real[f] # "part"

\* The files a call of get_resource_filename returned can be used: no file is torn, and
\* where files can be renamed over, those returned have the content of the egg as long as
\* no process has another egg of this name. Without that (Windows) one process may remove
\* a file another has just been given.
ReturnedFilesStay ==
  ~short =>
    /\ NoTornFile
    /\ \A p \in Procs : (cpc[p] = "idle" /\ ~nt /\ \A q \in Procs : egg[q] = egg[p]) =>
          \A f \in promised[p] : real[f] = egg[p]
=============================================================================
