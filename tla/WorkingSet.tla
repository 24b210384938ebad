----------------------------- MODULE WorkingSet -----------------------------
(* What pkg_resources finds on a path and the working set it keeps                 *)
(* (src/src/pkg_resources/__init__.py): find_on_path and its factories, the        *)
(* dependencies and the order of distributions, the Environment; the distributions  *)
(* that are active, sys.path beside them, and the namespace packages whose __path__ *)
(* follows both.                                                                  *)
(*                                                                               *)
(* A requirement is [key, vers, extras, marker]: vers is the set of versions its   *)
(* specifier contains, marker "" or the extra its marker asks for. A distribution  *)
(* is [key, ver, loc, dir, prec, plat, meta, lines, ns, mods]: prec 3 is EGG_DIST and -1     *)
(* DEVELOP_DIST, ver 0 stands for no version; lines are those of requires.txt      *)
(* (meta "egg") or the Requires-Dist and Provides-Extra of METADATA ("wheel").     *)
EXTENDS Integers, Sequences, FiniteSets, SequencesExt, FiniteSetsExt

CONSTANTS
  Disk,       \* path item -> its entries [kind, name, ver, empty, dist, link]; name is a
              \* number that orders the names; an unpacked egg is its own only entry
  LocOrder,   \* the locations and the names of projects, in the order of their strings
  Platform,   \* of this interpreter
  SysPaths,     \* the paths the interpreter may start with
  MainRequires, \* what __main__.__requires__ may be: sequences of requirements
  Requests,     \* sequences of requirements given to require()
  Plugins,      \* the plugin environment: key -> distributions
  Installable,  \* what the installer can fetch
  Packages,     \* namespace packages, parents first
  Parent,       \* package -> its parent package, or None
  Provided,     \* package -> path items that hold it
  MaxOps        \* bound: operations

VARIABLES
  ws,        \* [entries, keys, by]: WorkingSet.entries, entry_keys, by_key
  sysPath,   \* sys.path
  declared,  \* _namespace_packages: package or None -> child packages
  modPath,   \* package in sys.modules -> roots of its __path__
  saved,     \* __getstate__(): [entries, keys, by], its lists of keys shared with ws
  granted,   \* history: the requirements that a call asked for and got, with all they need
  replaced,  \* history: an add(replace=True), or a restore, took back what was granted
  moved,     \* history: an activation moved a location that was on sys.path already
  ops, pc    \* bound counter; "new", "ready", "failed"

wsVars == <<ws, sysPath, declared, modPath, saved, granted, replaced, moved, ops, pc>>

NoDist == [key |-> "none", ver |-> 0, loc |-> "none"]
None == "none"    \* no extra

\* dist in req
InReq(d, r) == d.key = r.key /\ d.ver \in r.vers

-----------------------------------------------------------------------------
(* Dependencies: lines are [k |-> "section", extra, marker] and [k |-> "req", req]. *)

\* split_sections: <<section, content>> in order, sections <<extra, marker>>
SplitSections(lines) ==
  LET step(acc, l) ==
        IF l.k = "section"
        THEN [done |-> IF acc.section # <<None, "">> \/ acc.content # <<>>
                       THEN Append(acc.done, <<acc.section, acc.content>>) ELSE acc.done,
              section |-> <<l.extra, l.marker>>, content |-> <<>>]
        ELSE [acc EXCEPT !.content = Append(@, l.req)]
      all == FoldLeft(step, [done |-> <<>>, section |-> <<None, "">>, content |-> <<>>], lines)
  IN  Append(all.done, <<all.section, all.content>>)

\* _filter_extras: a section whose marker fails or is invalid gives its extra no requirements
FilterExtras(sections) ==
  LET of(e) == SelectSeq(sections, LAMBDA s : s[1][1] = e)
      reqs(s) == IF s[1][2] \in {"", "true"} THEN s[2] ELSE <<>>
  IN  [e \in {sections[i][1][1] : i \in DOMAIN sections} |->
         FoldLeft(LAMBDA acc, s : acc \o reqs(s), <<>>, of(e))]

\* req.marker.evaluate({'extra': extra})
Evaluate(r, extra) == r.marker = "" \/ r.marker = extra

\* _compute_dependencies of a wheel; its order is that of a set
ComputeDependencies(lines) ==
  LET reqs == {lines[i].req : i \in {j \in DOMAIN lines : lines[j].k = "req"}}
      extras == {lines[i].extra : i \in {j \in DOMAIN lines : lines[j].k = "section"}}
      common == {r \in reqs : Evaluate(r, None)}
  IN  [e \in extras \cup {None} |->
         SetToSeq(IF e = None THEN common ELSE {r \in reqs : Evaluate(r, e)} \ common)]

DepMap(d) == IF d.meta = "wheel" THEN ComputeDependencies(d.lines) ELSE FilterExtras(SplitSections(d.lines))

\* requires: [ok, reqs], not ok for an UnknownExtra
Requires(d, extras) ==
  LET dm == DepMap(d)
      base == IF None \in DOMAIN dm THEN dm[None] ELSE <<>>
  IN  IF \A i \in DOMAIN extras : extras[i] \in DOMAIN dm
      THEN [ok |-> TRUE, reqs |-> FoldLeft(LAMBDA acc, e : acc \o dm[e], base, extras)]
      ELSE [ok |-> FALSE, reqs |-> <<>>]

-----------------------------------------------------------------------------
(* Finders.                                                                     *)

\* hashcmp, greatest first
Before(d, e) ==
  LET rank(x) == CHOOSE i \in DOMAIN LocOrder : LocOrder[i] = x
      named == rank(d.key) > rank(e.key) \/ (d.key = e.key /\ rank(d.loc) > rank(e.loc))
  IN  d.ver > e.ver \/ (d.ver = e.ver /\ (d.prec > e.prec \/ (d.prec = e.prec /\ named)))

\* dist_factory: what an entry is taken for
Factory(e, only) ==
  IF e.kind \in {"egg-info", "dist-info"} THEN "metadata"
  ELSE IF ~only /\ e.kind = "egg" THEN "find"
  ELSE IF ~only /\ e.kind = "egg-link" THEN "link" ELSE "nothing"

\* find_distributions: an egg is its own distribution; the eggs, metadata and links of a
\* directory, highest version first. An egg-link names a directory, searched without
\* `only`; a metadata directory that is empty gives nothing
FindIn(item, only, linked) ==
  LET entries == SelectSeq(Disk[item], LAMBDA e : Factory(e, only) # "nothing")
      sorted == SortSeq(entries, LAMBDA e, f : e.name > f.name \/ (e.name = f.name /\ e.ver > f.ver))
      dists(e) == IF Factory(e, only) = "link" THEN linked[e.link]
                  ELSE IF e.empty THEN <<>> ELSE <<e.dist>>
  IN  IF item \notin DOMAIN Disk THEN <<>>
      ELSE IF Len(Disk[item]) = 1 /\ Disk[item][1].kind = "unpacked" THEN <<Disk[item][1].dist>>
      ELSE FoldLeft(LAMBDA acc, e : acc \o dists(e), <<>>, sorted)

Links == {e.link : e \in {x \in UNION {Range(Disk[d]) : d \in DOMAIN Disk} : x.kind = "egg-link"}}

FindDistributions(item, only) ==
  FindIn(item, only, [link \in Links |-> FindIn(link, FALSE, [l \in Links |-> <<>>])])

-----------------------------------------------------------------------------
(* Environment: key -> distributions, the best first.                            *)

\* compatible_platforms: macOS names are <<"macosx", major, minor, machine>>
CompatiblePlatforms(provided, required) ==
  \/ provided = <<>> \/ required = <<>> \/ provided = required
  \/ /\ required[1] = "macosx" /\ provided[1] = "macosx"
     /\ provided[2] = required[2] /\ provided[4] = required[4] /\ provided[3] <= required[3]
  \/ /\ required[1] = "macosx" /\ provided[1] = "darwin"
     /\ \E d \in {<<7, 3>>, <<8, 4>>} :    \* "10.12" >= "10.3" compares strings
          provided[2] = d[1] /\ (required[2] > 10 \/ (required[2] = 10 /\ required[3] \in d[2]..9))

InEnv(env, key) == IF key \in DOMAIN env THEN env[key] ELSE <<>>

\* Environment.add
EnvAdd(env, d) ==
  LET old == InEnv(env, d.key)
      at == Cardinality({i \in DOMAIN old : Before(old[i], d)}) + 1
      new == IF Contains(old, d) THEN old ELSE InsertAt(old, at, d)
  IN  IF ~CompatiblePlatforms(d.plat, Platform) \/ d.ver = 0 THEN env
      ELSE [k \in DOMAIN env \cup {d.key} |-> IF k = d.key THEN new ELSE env[k]]

EmptyEnv == [k \in {} |-> <<>>]

\* __iadd__ of another environment's distributions, or of those scan finds
EnvAddAll(env, dists) == FoldLeft(EnvAdd, env, dists)

\* Environment(search_path)
Environment(path) ==
  FoldLeft(LAMBDA env, item : EnvAddAll(env, FindDistributions(item, FALSE)), EmptyEnv, path)

-----------------------------------------------------------------------------
(* The working set.                                                              *)

Keys(w) == {k \in DOMAIN w.by : w.by[k] # NoDist}
NoState == [entries |-> <<>>, keys |-> [i \in {} |-> <<>>], by |-> [k \in {} |-> NoDist]]
ByKey(w, k) == IF k \in DOMAIN w.by THEN w.by[k] ELSE NoDist

-----------------------------------------------------------------------------
(* Distribution.insert_on: the path with the location in it.                     *)

\* the duplicates of loc behind place p go; the one right behind a deleted one stays
RECURSIVE DropDuplicates(_, _, _)
DropDuplicates(path, loc, p) ==
  LET later == {i \in DOMAIN path : i > p /\ path[i] = loc}
  IN  IF later = {} THEN path ELSE DropDuplicates(RemoveAt(path, Min(later)), loc, Min(later))

InsertOn(path, d, replace) ==
  LET hit == {p \in DOMAIN path : path[p] = d.loc \/ (path[p] = d.dir /\ d.prec = 3)}
      p == Min(hit)
  IN  IF hit = {} THEN IF replace THEN <<d.loc>> \o path ELSE Append(path, d.loc)
      ELSE IF path[p] = d.loc THEN IF replace THEN DropDuplicates(path, d.loc, p) ELSE path
      ELSE IF ~replace /\ \E i \in p..Len(path) : path[i] = d.loc THEN path
      ELSE DropDuplicates(InsertAt(path, p, d.loc), d.loc, p)

-----------------------------------------------------------------------------
(* WorkingSet.                                                                   *)

\* mutant: a distribution found later takes the place of the active one
MutKeepsActive(w, d, replace) == FALSE

KeepsActive(w, d, replace) == ~replace /\ ByKey(w, d.key) # NoDist

\* add: the working set, and whether the callbacks are called
WsAdd(w, d, entry, insert, replace) ==
  LET entries == IF insert THEN InsertOn(w.entries, d, replace) ELSE w.entries
      at == IF entry = None THEN d.loc ELSE entry
      with(keys) == IF Contains(keys, d.key) THEN keys ELSE Append(keys, d.key)
      known == [i \in DOMAIN w.keys \cup {at, d.loc} |-> IF i \in DOMAIN w.keys THEN w.keys[i] ELSE <<>>]
  IN  IF KeepsActive(w, d, replace)
      THEN [w |-> [w EXCEPT !.entries = entries, !.keys = known], new |-> FALSE]
      ELSE [w |-> [entries |-> entries,
                   keys |-> [i \in DOMAIN known |-> IF i \in {at, d.loc} THEN with(known[i]) ELSE known[i]],
                   by |-> [k \in DOMAIN w.by \cup {d.key} |-> IF k = d.key THEN d ELSE w.by[k]]],
            new |-> TRUE]

AllKeys(w) == FoldLeft(LAMBDA acc, e : acc \o IF e \in DOMAIN w.keys THEN w.keys[e] ELSE <<>>, <<>>, w.entries)

\* __iter__: by entry, each key once; a key that by_key lacks is a KeyError
Iter(w) ==
  LET all == AllKeys(w)
      first == SelectSeq([i \in DOMAIN all |-> i], LAMBDA i : \A j \in 1..(i - 1) : all[j] # all[i])
  IN  [i \in DOMAIN first |-> all[first[i]]]

-----------------------------------------------------------------------------
(* resolve: [ok, why, act]; act are the distributions to activate.               *)

Marked(req, rx, extras) ==
  LET own == IF req \in DOMAIN rx THEN rx[req] ELSE <<>>
      given == IF extras = <<>> THEN <<None>> ELSE extras
  IN  \E e \in Range(own \o given) : Evaluate(req, e)

\* Environment.best_match with a working set w: [ok, dist], not ok for a VersionConflict
BestMatch(env, req, w, inst, replace) ==
  LET found == ByKey(w, req.key)
      fits == SelectSeq(InEnv(env, req.key), LAMBDA d : InReq(d, req))
      fetched == SelectSeq(inst, LAMBDA d : InReq(d, req))
  IN  IF found # NoDist /\ InReq(found, req) THEN [ok |-> TRUE, dist |-> found]
      ELSE IF found # NoDist /\ ~replace THEN [ok |-> FALSE, dist |-> found]
      ELSE [ok |-> TRUE, dist |-> IF fits # <<>> THEN fits[1]
                                  ELSE IF fetched # <<>> THEN fetched[1] ELSE NoDist]

Refused(why) == [ok |-> FALSE, why |-> why, act |-> <<>>]

\* st: [todo, done, best, act, rx, env]; env NoEnv until it is needed
NoEnv == [none |-> TRUE]

\* the distribution for a requirement: the one chosen before, the active one, or the best
\* match; the environment is made when it is first needed, and stays empty for all that
\* follows when that was to replace a conflicting distribution
Pick(w, st, req, inst, replace) ==
  LET active == ByKey(w, req.key)
      match(env, from) == [new |-> TRUE, env |-> env, m |-> BestMatch(env, req, from, inst, replace)]
  IN  IF req.key \in DOMAIN st.best THEN [new |-> FALSE, env |-> st.env, m |-> [ok |-> TRUE, dist |-> st.best[req.key]]]
      ELSE IF active # NoDist /\ (InReq(active, req) \/ ~replace)
      THEN [new |-> TRUE, env |-> st.env, m |-> [ok |-> TRUE, dist |-> active]]
      ELSE IF st.env # NoEnv THEN match(st.env, w)
      ELSE IF active = NoDist THEN match(Environment(w.entries), w) ELSE match(EmptyEnv, NoState)

\* the loop's state after a requirement got its distribution x, which needs `new`
Chosen(w, st, req, x, new) ==
  [todo |-> Tail(st.todo) \o new, done |-> st.done \cup {req}, env |-> x.env,
   best |-> IF ~x.new \/ x.m.dist = ByKey(w, req.key) THEN st.best
            ELSE [k \in DOMAIN st.best \cup {req.key} |-> IF k = req.key THEN x.m.dist ELSE st.best[k]],
   act |-> IF x.new THEN Append(st.act, x.m.dist) ELSE st.act,
   rx |-> [r \in DOMAIN st.rx \cup Range(new) |-> IF r \in Range(new) THEN req.extras ELSE st.rx[r]]]

RECURSIVE ResolveLoop(_, _, _, _, _)
ResolveLoop(w, st, inst, replace, extras) ==
  LET req == Head(st.todo)
      then(x, need) == IF need.ok THEN ResolveLoop(w, Chosen(w, st, req, x, Reverse(need.reqs)), inst, replace, extras)
                       ELSE Refused("unknown extra")
      check(x) == IF ~x.m.ok THEN Refused("conflict")
                  ELSE IF x.m.dist = NoDist THEN Refused("not found")
                  ELSE IF ~InReq(x.m.dist, req) THEN Refused("conflict")
                  ELSE then(x, Requires(x.m.dist, req.extras))
  IN  IF st.todo = <<>> THEN [ok |-> TRUE, why |-> "", act |-> st.act]
      ELSE IF req \in st.done \/ ~Marked(req, st.rx, extras)
      THEN ResolveLoop(w, [st EXCEPT !.todo = Tail(@)], inst, replace, extras)
      ELSE check(Pick(w, st, req, inst, replace))

Resolve(w, reqs, env, inst, replace, extras) ==
  ResolveLoop(w, [todo |-> Reverse(reqs), done |-> {}, best |-> [k \in {} |-> NoDist], act |-> <<>>,
                  rx |-> [r \in {} |-> <<>>], env |-> env], inst, replace, extras)

\* find_plugins: per project the newest distribution that resolves, with what it needs; sorted,
\* the lowest version first

AsRequirement(d) == [key |-> d.key, vers |-> {d.ver}, extras |-> <<>>, marker |-> ""]

AddEach(w, dists) == FoldLeft(LAMBDA v, d : WsAdd(v, d, None, TRUE, FALSE).w, w, dists)

RECURSIVE TryPlugins(_, _, _, _)
TryPlugins(shadow, dists, env, fallback) ==
  LET after(r) == IF r.ok THEN [shadow |-> AddEach(shadow, r.act), got |-> r.act]
                  ELSE IF fallback THEN TryPlugins(shadow, Tail(dists), env, fallback)
                  ELSE [shadow |-> shadow, got |-> <<>>]
  IN  IF dists = <<>> THEN [shadow |-> shadow, got |-> <<>>]
      ELSE after(Resolve(shadow, <<AsRequirement(Head(dists))>>, env, <<>>, FALSE, <<>>))

FindPlugins(w, fallback) ==
  LET keys == SetToSeq(DOMAIN Plugins)
      join(acc, t) == [shadow |-> t.shadow, got |-> acc.got \o t.got]
      best(k) == EnvAddAll(EmptyEnv, Plugins[k])[k]
      all(env, shadow) == FoldLeft(LAMBDA acc, k : join(acc, TryPlugins(acc.shadow, best(k), env, fallback)),
                                   [shadow |-> shadow, got |-> <<>>], keys).got
      active(order) == [i \in DOMAIN order |-> w.by[order[i]]]
      found == all(FoldLeft(LAMBDA e, k : EnvAddAll(e, Plugins[k]), Environment(w.entries), keys),
                   AddEach(NoState, active(Iter(w))))
  IN  SetToSortSeq(Range(found), LAMBDA d, e : Before(e, d))

-----------------------------------------------------------------------------
(* Namespace packages; s is [sys, declared, mods, moved].                                *)

\* _rebuild_mod_path
Rebuild(roots, sys) ==
  LET at(r) == IF Contains(sys, r) THEN Min({i \in DOMAIN sys : sys[i] = r}) ELSE Len(sys) + 1
      before(i, j) == at(roots[i]) < at(roots[j]) \/ (at(roots[i]) = at(roots[j]) /\ i < j)
      rank(i) == Cardinality({j \in DOMAIN roots : before(j, i)}) + 1
  IN  [k \in DOMAIN roots |-> roots[CHOOSE i \in DOMAIN roots : rank(i) = k]]

\* _handle_ns: the package below a path item joins the package's __path__
Roots(s, p) == IF p \in DOMAIN s.mods THEN s.mods[p] ELSE <<>>
Joins(s, p, item) == item \in Provided[p] /\ ~Contains(Roots(s, p), item)
HandleNs(s, p, item) ==
  IF ~Joins(s, p, item) THEN s
  ELSE [s EXCEPT !.mods = [q \in DOMAIN s.mods \cup {p} |->
                             IF q = p THEN Rebuild(Append(Roots(s, p), item), s.sys) ELSE s.mods[q]]]

Children(s, p) == IF p \in DOMAIN s.declared THEN s.declared[p] ELSE <<>>

\* fixup_namespace_packages: a new path item, for the children of a package
RECURSIVE Fixup(_, _, _)
Fixup(s, item, parent) ==
  FoldLeft(LAMBDA t, p : IF Joins(t, p, item) THEN Fixup(HandleNs(t, p, item), item, p) ELSE t,
           s, Children(s, parent))

\* declare_namespace
RECURSIVE DeclareNamespace(_, _)
DeclareNamespace(s, p) ==
  LET known(up) == [q \in DOMAIN up.declared \cup {Parent[p], p} |->
                      IF q = Parent[p] THEN Append(Children(up, q), p)
                      ELSE IF q = p THEN <<>> ELSE up.declared[q]]
      below(up) == FoldLeft(LAMBDA t, i : HandleNs(t, p, i), [up EXCEPT !.declared = known(up)],
                            IF Parent[p] = None THEN up.sys ELSE up.mods[Parent[p]])
  IN  IF p \in DOMAIN s.declared THEN s
      ELSE below(IF Parent[p] = None THEN s ELSE DeclareNamespace(s, Parent[p]))

\* mutant: the packages are not told of the new path item
MutActivate(s, d, replace) == [s EXCEPT !.sys = InsertOn(@, d, replace)]

\* Distribution.activate on sys.path
Activate(s, d, replace) ==
  LET on(path) == [s EXCEPT !.sys = path, !.moved = @ \/ (Contains(s.sys, d.loc) /\ path # s.sys)]
  IN  FoldLeft(LAMBDA t, p : IF p \in DOMAIN t.mods THEN DeclareNamespace(t, p) ELSE t,
               Fixup(on(InsertOn(s.sys, d, replace)), d.loc, None), SetToSeq(d.ns))

-----------------------------------------------------------------------------
(* The master working set; m is [w, s].                                           *)

Master == [w |-> ws, s |-> [sys |-> sysPath, declared |-> declared, mods |-> modPath, moved |-> moved]]
Becomes(m) == /\ ws' = m.w /\ sysPath' = m.s.sys /\ declared' = m.s.declared /\ modPath' = m.s.mods
              /\ moved' = m.s.moved

\* add to the master, whose listener activates what is new
MasterAdd(m, d, entry, insert, replace) ==
  LET after(a) == [w |-> a.w, s |-> IF a.new THEN Activate(m.s, d, TRUE) ELSE m.s]
  IN  after(WsAdd(m.w, d, entry, insert, replace))

AddAll(m, dists) == FoldLeft(LAMBDA n, d : MasterAdd(n, d, None, TRUE, FALSE), m, dists)

\* add_entry, of a working set without listeners and of the master
WithEntry(w, item) ==
  [w EXCEPT !.keys = [i \in DOMAIN @ \cup {item} |-> IF i \in DOMAIN @ THEN @[i] ELSE <<>>],
            !.entries = Append(@, item)]

WsAddEntry(w, item) == FoldLeft(LAMBDA v, d : WsAdd(v, d, item, FALSE, FALSE).w,
                                WithEntry(w, item), FindDistributions(item, TRUE))

MasterAddEntry(m, item) == FoldLeft(LAMBDA n, d : MasterAdd(n, d, item, FALSE, FALSE),
                                    [m EXCEPT !.w = WithEntry(@, item)], FindDistributions(item, TRUE))

\* _build_master: with __requires__, and when that conflicts from the requirements alone
BuildMaster(sys, reqs) ==
  LET rest(w) == FoldLeft(LAMBDA v, i : IF Contains(v.entries, i) THEN v ELSE WsAddEntry(v, i), w, sys)
      built(w) == [ok |-> TRUE, w |-> w, sys |-> w.entries]
      alone(r) == IF r.ok THEN built(rest(AddEach(NoState, r.act))) ELSE [ok |-> FALSE]
      after(w, r) == IF r.ok THEN [ok |-> TRUE, w |-> AddEach(w, r.act), sys |-> sys]
                     ELSE IF r.why = "conflict"
                     THEN alone(Resolve(NoState, reqs, Environment(sys), <<>>, FALSE, <<>>)) ELSE [ok |-> FALSE]
      plain(w) == after(w, Resolve(w, reqs, NoEnv, <<>>, FALSE, <<>>))
  IN  plain(FoldLeft(WsAddEntry, NoState, sys))

\* "match order": the entries anew from sys.path, which the listener changes under way
RECURSIVE MatchOrder(_, _)
MatchOrder(m, i) == IF i > Len(m.s.sys) THEN m ELSE MatchOrder(MasterAddEntry(m, m.s.sys[i]), i + 1)

\* _initialize_master_working_set
Initialize(sys, reqs) ==
  LET start(path) == [sys |-> path, declared |-> [p \in {} |-> <<>>], mods |-> [p \in {} |-> <<>>], moved |-> FALSE]
      active(b) == FoldLeft(LAMBDA t, k : Activate(t, b.w.by[k], FALSE), start(b.sys), Iter(b.w))
      again(m) == [ok |-> TRUE, s |-> m.s, w |-> m.w]
      after(b) == IF b.ok THEN again(MatchOrder([w |-> [b.w EXCEPT !.entries = <<>>], s |-> active(b)], 1)) ELSE b
  IN  after(BuildMaster(sys, reqs))

-----------------------------------------------------------------------------
\* what the requirements ask for in the end, when w holds a distribution for each
RECURSIVE Asked(_, _, _)
Asked(w, S, extras) ==
  LET passes(x) == Evaluate(x[1], None) \/ \E e \in Range(x[2]) \cup Range(extras) : Evaluate(x[1], e)
      go(x) == {<<r, x[1].extras>> : r \in Range(Requires(w.by[x[1].key], x[1].extras).reqs)}
      after(T) == IF T = S THEN {x[1] : x \in {y \in S : passes(y)}} ELSE Asked(w, T, extras)
  IN  after(S \cup UNION {go(x) : x \in {y \in S : passes(y) /\ y[1].key \in Keys(w)}})

Init ==
  /\ sysPath \in SysPaths /\ ws = NoState /\ declared = [p \in {} |-> <<>>] /\ modPath = [p \in {} |-> <<>>]
  /\ saved = NoState /\ granted = {} /\ replaced = FALSE /\ moved = FALSE /\ ops = 0 /\ pc = "new"

Start(reqs) ==
  /\ pc = "new"
  /\ \E i \in {Initialize(sysPath, reqs)} :
       IF i.ok THEN /\ pc' = "ready" /\ Becomes(i)
                    /\ granted' = Asked(i.w, {<<r, <<>>>> : r \in Range(reqs)}, <<>>)
       ELSE pc' = "failed" /\ UNCHANGED <<ws, sysPath, declared, modPath, moved, granted>>
  /\ UNCHANGED <<saved, replaced, ops>>

Step == pc = "ready" /\ ops < MaxOps /\ ops' = ops + 1 /\ pc' = pc

\* a change, whose new keys are also in the lists the saved state shares
Commit(m) == /\ Becomes(m)
             /\ saved' = IF saved = NoState THEN NoState
                         ELSE [saved EXCEPT !.keys = [e \in DOMAIN @ |-> m.w.keys[e]]]

Granting(m, reqs, extras) ==
  /\ Commit(m) /\ granted' = granted \cup Asked(m.w, {<<r, <<>>>> : r \in Range(reqs)}, extras)
  /\ UNCHANGED replaced

\* resolve(), then add() of what it gives
ResolveAndAdd(reqs, inst, extras) ==
  \E r \in {Resolve(ws, reqs, NoEnv, inst, FALSE, extras)} :
    r.ok /\ \E m \in {AddAll(Master, r.act)} : Granting(m, reqs, extras)

\* require(), and a run_script() or a resource of a requirement
Require(reqs) == Step /\ ResolveAndAdd(reqs, <<>>, <<>>)

\* EntryPoint.load of an active distribution, with an installer or without
LoadEntryPoint(k, extras, inst) ==
  /\ Step /\ k \in Keys(ws)
  /\ \E need \in {Requires(ws.by[k], extras)} : need.ok /\ ResolveAndAdd(need.reqs, inst, extras)

\* external: build requirements, fetched in place of what conflicts with them
FetchEggs(reqs) ==
  /\ Step /\ replaced' = TRUE /\ UNCHANGED granted
  /\ \E r \in {Resolve(ws, reqs, NoEnv, Installable, TRUE, <<>>)} :
       r.ok /\ \E m \in {FoldLeft(LAMBDA n, d : MasterAdd(n, d, None, TRUE, TRUE), Master, r.act)} : Commit(m)

\* the plugins of find_plugins(), added as its documentation shows
AddPlugins(fallback) ==
  /\ Step
  /\ \E got \in {FindPlugins(ws, fallback)} : \E m \in {AddAll(Master, got)} :
       Granting(m, [i \in DOMAIN got |-> AsRequirement(got[i])], <<>>)

\* add() of a distribution
Add(d, replace) ==
  /\ Step /\ \E m \in {MasterAdd(Master, d, None, TRUE, replace)} : Commit(m)
  /\ replaced' = (replaced \/ replace) /\ UNCHANGED granted

\* a path item put on sys.path, with the fixup_namespace_packages() and the add_entry()
\* that go with it
AddEntry(item) ==
  LET start == [w |-> ws, s |-> Fixup([Master.s EXCEPT !.sys = Append(@, item)], item, None)]
  IN  /\ Step /\ ~Contains(sysPath, item) /\ ~Contains(ws.entries, item)
      /\ \E m \in {MasterAddEntry(start, item)} : Commit(m)
      /\ UNCHANGED <<granted, replaced>>

\* the first import of a namespace package, whose __init__ declares it
Import(p) ==
  LET items == IF Parent[p] = None THEN sysPath ELSE modPath[Parent[p]]
      found == SelectSeq(items, LAMBDA i : i \in Provided[p])
      s == [Master.s EXCEPT !.mods = [q \in DOMAIN modPath \cup {p} |-> IF q = p THEN <<found[1]>> ELSE modPath[q]]]
  IN  /\ Step /\ p \notin DOMAIN modPath /\ Parent[p] \in DOMAIN modPath \cup {None} /\ found # <<>>
      /\ Becomes([w |-> ws, s |-> DeclareNamespace(s, p)])
      /\ UNCHANGED <<saved, granted, replaced>>

\* __getstate__ and __setstate__ around code that is run aside
Save == /\ Step /\ saved = NoState /\ saved' = ws
        /\ UNCHANGED <<ws, sysPath, declared, modPath, moved, granted, replaced>>
Restore == /\ Step /\ saved # NoState /\ ws' = saved /\ replaced' = TRUE /\ saved' = NoState
           /\ UNCHANGED <<sysPath, declared, modPath, moved, granted>>

WsNext ==
  \/ \E reqs \in MainRequires : Start(reqs)
  \/ \E reqs \in Requests : Require(reqs) \/ FetchEggs(reqs)
  \/ \E k \in DOMAIN ws.by, extras \in {<<>>, <<"x">>}, inst \in {<<>>, Installable} : LoadEntryPoint(k, extras, inst)
  \/ \E fallback \in BOOLEAN : AddPlugins(fallback)
  \/ \E i \in DOMAIN Installable, replace \in BOOLEAN : Add(Installable[i], replace)
  \/ \E item \in DOMAIN Disk : AddEntry(item)
  \/ \E p \in Packages : Import(p)
  \/ Save \/ Restore

-----------------------------------------------------------------------------
\* Everything require(), the entry points and find_plugins() were given, and everything
\* it needs in turn under the extras and markers in force, is satisfied by the active
\* distribution of its project, whatever is required, loaded or found on the path after.
RequirementsMet ==
  (pc = "ready" /\ ~replaced) =>
    \A r \in granted : ByKey(ws, r.key) # NoDist /\ InReq(ByKey(ws, r.key), r)

\* A namespace package has on its __path__, once, its part of every path item that holds
\* one, after any activation and whichever of the two came first, in the order of
\* sys.path. The code lets the order go when an activation moves a location that was on
\* sys.path already: its part is on __path__, so nothing is sorted again.
NamespacesComplete ==
  \A p \in DOMAIN modPath :
    LET items == IF Parent[p] = None THEN sysPath ELSE modPath[Parent[p]]
        parts == SelectSeq(items, LAMBDA i : i \in Provided[p])
    IN  /\ Range(modPath[p]) = Range(parts) /\ Len(modPath[p]) = Len(parts)
        /\ ~moved => modPath[p] = parts

=============================================================================
