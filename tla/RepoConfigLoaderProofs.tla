------------------------ MODULE RepoConfigLoaderProofs ------------------------
(***************************************************************************)
(* Proofs about RepoConfigLoader: for any branches, texts, time to live    *)
(* and any pushes, what a load comes to was on GitHub less than a TTL      *)
(* before it began, and only the default branch and a branch it named have *)
(* a say.                                                                  *)
(*                                                                         *)
(* The inductive invariant is LoaderInv.  A cache entry alone says nothing *)
(* of the present; it says that its text was on the branch at its date or  *)
(* later (EntriesAreTrue), which no push takes back, and freshness turns   *)
(* that date into recency.                                                 *)
(***************************************************************************)
EXTENDS RepoConfigLoader, TLAPS

\* Two texts of one branch, seen at or after the load began, are recent.
LEMMA SeenIsRecent ==
  ASSUME LoaderTypeOK, NEW r \in Refs, NEW x \in Contents, NEW t \in Nat,
         HadSince(r, x, t), load.started < t + TTL
  PROVE  Recent(r, x)
<1>1. /\ gone[r][x] \in Nat /\ load.started \in Nat /\ TTL \in Nat
  BY NumbersAssumption DEF LoaderTypeOK, Loads
<1> QED
  BY <1>1 DEF HadSince, Recent

\* Neither the clock nor a push takes back what was once there: a text that
\* goes is gone from now on.
LEMMA HistoryKeeps ==
  ASSUME LoaderTypeOK,
         \/ Tick
         \/ \E r \in Refs, x \in Contents : Push(r, x)
  PROVE  /\ now \in Nat /\ now' \in Nat /\ now <= now'
         /\ file' \in [Refs -> Contents]
         /\ gone' \in [Refs -> [Contents -> Nat]]
         /\ \A r \in Refs, x \in Contents :
              \/ gone'[r][x] = gone[r][x] /\ (file'[r] = file[r] \/ file[r] # x)
              \/ gone'[r][x] = now
<1>1. CASE Tick
  BY <1>1 DEF Tick, LoaderTypeOK
<1>2. CASE \E r \in Refs, x \in Contents : Push(r, x)
  <2>1. PICK r \in Refs, x \in Contents : Push(r, x)
    BY <1>2
  <2>2. /\ file[r] \in Contents /\ now \in Nat /\ now' = now
        /\ file' = [file EXCEPT ![r] = x]
        /\ gone' = [gone EXCEPT ![r][file[r]] = now]
        /\ gone \in [Refs -> [Contents -> Nat]]
    BY <2>1 DEF Push, LoaderTypeOK
  <2>3. file' \in [Refs -> Contents]
    BY <2>2 DEF LoaderTypeOK
  <2>4. gone' \in [Refs -> [Contents -> Nat]]
    BY <2>2
  <2>5. ASSUME NEW q \in Refs, NEW y \in Contents
        PROVE  \/ gone'[q][y] = gone[q][y] /\ (file'[q] = file[q] \/ file[q] # y)
               \/ gone'[q][y] = now
    <3>1. CASE q # r
      BY <2>2, <3>1 DEF LoaderTypeOK
    <3>2. CASE q = r /\ y # file[r]
      BY <2>2, <3>2 DEF LoaderTypeOK
    <3>3. CASE q = r /\ y = file[r]
      BY <2>2, <3>3 DEF LoaderTypeOK
    <3> QED
      BY <3>1, <3>2, <3>3
  <2> QED
    BY <2>2, <2>3, <2>4, <2>5
<1> QED
  BY <1>1, <1>2

\* So what was had since a time not after now is had still, and what was
\* recent is recent.
LEMMA PastKeeps ==
  ASSUME LoaderTypeOK, load' = load, load.started <= now,
         \/ Tick
         \/ \E r \in Refs, x \in Contents : Push(r, x),
         NEW r \in Refs, NEW x \in Contents
  PROVE  /\ \A t \in Nat : t <= now /\ HadSince(r, x, t) => HadSince(r, x, t)'
         /\ Recent(r, x) => Recent(r, x)'
<1>1. /\ now \in Nat /\ gone[r][x] \in Nat /\ load.started \in Nat
      /\ TTL \in Nat \ {0}
  BY NumbersAssumption DEF LoaderTypeOK, Loads
<1>2. \/ gone'[r][x] = gone[r][x] /\ (file'[r] = file[r] \/ file[r] # x)
      \/ gone'[r][x] = now
  BY HistoryKeeps
<1>3. ASSUME NEW t \in Nat, t <= now, HadSince(r, x, t)
      PROVE  HadSince(r, x, t)'
  BY <1>1, <1>2, <1>3 DEF HadSince
<1>4. Recent(r, x) => Recent(r, x)'
  BY <1>1, <1>2 DEF Recent
<1> QED
  BY <1>3, <1>4

-----------------------------------------------------------------------------
\* A loader starts within the invariant.
LEMMA LoaderInitInv == LoaderInit => LoaderInv
<1> SUFFICES ASSUME LoaderInit PROVE LoaderInv
  OBVIOUS
<1>1. LoaderTypeOK
  BY RefsAssumption, NumbersAssumption
  DEF LoaderInit, LoaderTypeOK, Contents, Entries, Absence, Loads, NoLoad,
      Results, Outcome, Kinds
<1>2. LoadIsRecent
  BY NumbersAssumption DEF LoaderInit, LoadIsRecent, NoLoad
<1> QED
  BY <1>1, <1>2
  DEF LoaderInit, LoaderInv, EntriesAreTrue, ResultIsRecent,
      OnlyTrustedBranches, Absence, Outcome

\* The clock and pushes keep it.
LEMMA WorldInv ==
  ASSUME LoaderInv,
         \/ Tick
         \/ \E r \in Refs, x \in Contents : Push(r, x)
  PROVE  LoaderInv'
<1>1. /\ UNCHANGED <<cache, pc, load, result>>
      /\ LoaderTypeOK /\ load.started \in Nat /\ load.asked \in Nat
      /\ load.started <= now /\ load.asked <= now
      /\ pushes' \in Nat
  BY DEF LoaderInv, LoadIsRecent, LoaderTypeOK, Loads, Tick, Push
<1>2. now <= now' /\ now \in Nat /\ now' \in Nat
  BY <1>1, HistoryKeeps
<1>3. ASSUME NEW r \in Refs, NEW x \in Contents
      PROVE  /\ \A t \in Nat : t <= now /\ HadSince(r, x, t)
                                 => HadSince(r, x, t)'
             /\ Recent(r, x) => Recent(r, x)'
  BY <1>1, PastKeeps
<1>4. LoaderTypeOK'
  BY <1>1, HistoryKeeps DEF LoaderTypeOK
<1>5. EntriesAreTrue'
  <2> SUFFICES ASSUME NEW r \in Refs, cache[r].cached
               PROVE  /\ HadSince(r, cache[r].text, cache[r].at)'
                      /\ cache[r].etag \in {NoFile, cache[r].text}
                      /\ cache[r].at <= now'
    BY <1>1 DEF EntriesAreTrue
  <2>1. /\ cache[r].text \in Contents /\ cache[r].at \in Nat
        /\ HadSince(r, cache[r].text, cache[r].at)
        /\ cache[r].etag \in {NoFile, cache[r].text}
        /\ cache[r].at <= now
    BY <1>1 DEF LoaderInv, EntriesAreTrue, LoaderTypeOK, Entries
  <2>2. HadSince(r, cache[r].text, cache[r].at)'
    BY <1>1, <1>3, <2>1 DEF HadSince
  <2> QED
    BY <1>2, <2>1, <2>2
<1>6. LoadIsRecent'
  <2>1. /\ load.ref \in Refs /\ load.seen \in Contents
        /\ load.source \in Refs /\ load.text \in Contents
        /\ load.trusted \in Contents
    BY <1>1 DEF LoaderTypeOK, Loads
  <2>2. HadSince(load.ref, load.seen, load.asked)
          => HadSince(load.ref, load.seen, load.asked)'
    BY <1>1, <1>3, <2>1 DEF HadSince
  <2>3. Recent(Default, load.trusted) => Recent(Default, load.trusted)'
    BY <1>1, <1>3, <2>1, RefsAssumption DEF Recent
  <2>4. Recent(load.source, load.text) => Recent(load.source, load.text)'
    BY <1>1, <1>3, <2>1 DEF Recent
  <2> QED
    BY <1>1, <1>2, <2>2, <2>3, <2>4 DEF LoaderInv, LoadIsRecent
<1>7. ResultIsRecent'
  <2>1. result.source \in Refs /\ result.text \in Contents /\ load.base \in Refs
    BY <1>1 DEF LoaderTypeOK, Results, Loads
  <2>2. Recent(result.source, result.text)
          => Recent(result.source, result.text)'
    BY <1>1, <1>3, <2>1 DEF Recent
  <2>3. \A r \in Refs, x \in Contents : Recent(r, x) => Recent(r, x)'
    BY <1>3
  <2> QED
    BY <1>1, <2>1, <2>2, <2>3, RefsAssumption
    DEF LoaderInv, ResultIsRecent, Contents
<1>8. OnlyTrustedBranches'
  <2>1. \A x \in Texts : Recent(Default, x) => Recent(Default, x)'
    BY <1>3, RefsAssumption DEF Contents
  <2> QED
    BY <1>1, <2>1 DEF LoaderInv, OnlyTrustedBranches
<1> QED
  BY <1>1, <1>4, <1>5, <1>6, <1>7, <1>8 DEF LoaderInv

\* A new load has nothing to be recent about.
LEMMA BeginInv ==
  ASSUME LoaderInv, NEW base \in Refs, Begin(base)
  PROVE  LoaderInv'
<1>1. /\ UNCHANGED <<now, file, gone, pushes, cache>>
      /\ pc' = "fetch" /\ result' = Outcome("none")
      /\ load' = [base |-> base, started |-> now, ref |-> Default,
                  asked |-> now, seen |-> NoFile, trusted |-> NoFile,
                  source |-> Default, text |-> NoFile]
  BY DEF Begin, NoLoad
<1>2. now \in Nat /\ TTL \in Nat /\ TTL <= now
  <2>1. load.started \in Nat /\ now \in Nat /\ load.asked \in Nat
        /\ TTL <= load.started /\ load.started <= load.asked
        /\ load.asked <= now /\ TTL \in Nat
    BY NumbersAssumption DEF LoaderInv, LoadIsRecent, LoaderTypeOK, Loads
  <2> QED
    BY <2>1
<1>3. LoaderTypeOK'
  BY <1>1, <1>2, RefsAssumption
  DEF LoaderInv, LoaderTypeOK, Contents, Loads, Results, Outcome, Kinds
<1>4. EntriesAreTrue'
  BY <1>1 DEF LoaderInv, EntriesAreTrue, HadSince
<1>5. LoadIsRecent'
  BY <1>1, <1>2 DEF LoadIsRecent
<1> QED
  BY <1>1, <1>3, <1>4, <1>5
  DEF LoaderInv, ResultIsRecent, OnlyTrustedBranches, Outcome

\* What load() does with a fetched text, if that text is recent.
LEMMA FetchedInv ==
  ASSUME LoaderInv, NEW x \in Contents, Recent(load.ref, x), Fetched(x),
         UNCHANGED <<now, file, gone>>
  PROVE  /\ pc' \in {"idle", "fetch", "context"}
         /\ load' \in Loads /\ result' \in Results
         /\ LoadIsRecent' /\ ResultIsRecent' /\ OnlyTrustedBranches'
<1>1. /\ load \in Loads /\ result \in Results /\ LoadIsRecent
      /\ ResultIsRecent /\ OnlyTrustedBranches /\ Default \in Refs
      /\ load.ref \in Refs /\ load.base \in Refs
      /\ load.trusted \in Contents
  BY RefsAssumption DEF LoaderInv, LoaderTypeOK, Loads
<1>2. \A r \in Refs, y \in Contents :
        load'.started = load.started => (Recent(r, y) <=> Recent(r, y)')
  BY DEF Recent
<1>3. ASSUME NEW k \in Kinds, Finish(Outcome(k)),
             k \in {"absent", "invalid"},
             k = "absent" => Recent(Default, NoFile),
             k = "invalid" => \E r \in {Default, load.base}, y \in Texts :
                                ~y.valid /\ Recent(r, y)
      PROVE  /\ pc' \in {"idle", "fetch", "context"}
             /\ load' \in Loads /\ result' \in Results
             /\ LoadIsRecent' /\ ResultIsRecent' /\ OnlyTrustedBranches'
  <2>1. pc' = "idle" /\ result' = Outcome(k) /\ load' = load
    BY <1>3 DEF Finish
  <2>2. result' \in Results
    BY <1>1, <2>1 DEF Results, Outcome, Contents
  <2>3. LoadIsRecent'
    BY <1>1, <2>1 DEF LoadIsRecent, Recent
  <2>4. ResultIsRecent'
    BY <1>3, <2>1 DEF ResultIsRecent, Outcome, Recent
  <2>5. OnlyTrustedBranches'
    BY <1>3, <2>1 DEF OnlyTrustedBranches, Outcome
  <2> QED
    BY <1>1, <2>1, <2>2, <2>3, <2>4, <2>5
<1>4. ASSUME NEW y \in Texts, y.valid, NEW r \in {Default, load.ref},
             NEW l \in Loads, Recent(r, y), Choose(y, r, l),
             l = [load EXCEPT !.trusted = l.trusted],
             l.trusted \in Texts, l.trusted.valid, Recent(Default, l.trusted),
             load.ref # Default => load.ref \in l.trusted.trusts
      PROVE  /\ pc' \in {"idle", "fetch", "context"}
             /\ load' \in Loads /\ result' \in Results
             /\ LoadIsRecent' /\ ResultIsRecent' /\ OnlyTrustedBranches'
  <2>1. /\ load' = [l EXCEPT !.text = y, !.source = r]
        /\ pc' \in {"idle", "context"}
        /\ result' \in {result, [kind |-> "config", source |-> r, text |-> y,
                                 context |-> {}]}
    BY <1>4 DEF Choose
  <2>2. r \in Refs /\ y \in Contents
    BY <1>1 DEF Contents
  <2>3. /\ load' \in Loads
        /\ load'.base = load.base /\ load'.started = load.started
        /\ load'.asked = load.asked /\ load'.ref = load.ref
        /\ load'.trusted = l.trusted /\ load'.text = y /\ load'.source = r
    BY <1>1, <1>4, <2>1, <2>2 DEF Loads
  <2>4. result' \in Results
    BY <1>1, <2>1, <2>2 DEF Results, Kinds
  <2>5. LoadIsRecent'
    BY <1>1, <1>4, <2>1, <2>3 DEF LoadIsRecent, Recent
  <2>6. ResultIsRecent'
    BY <1>1, <1>4, <2>1, <2>3 DEF ResultIsRecent, Recent
  <2>7. OnlyTrustedBranches'
    BY <1>1, <1>4, <2>1, <2>3
    DEF OnlyTrustedBranches, Recent, LoadIsRecent
  <2> QED
    BY <2>1, <2>3, <2>4, <2>5, <2>6, <2>7
<1>5. CASE load.ref = Default
  <2>1. CASE x = NoFile
    BY <1>3, <1>5, <2>1 DEF Fetched, Kinds
  <2>2. CASE x # NoFile /\ ~x.valid
    <3>1. x \in Texts
      BY <2>2 DEF Contents
    <3> QED
      BY <1>3, <1>5, <2>2, <3>1 DEF Fetched, Kinds
  <2>3. CASE x # NoFile /\ x.valid /\ Prefers(x, load.base)
    <3>1. /\ pc' = "fetch" /\ result' = result /\ x \in Texts
          /\ load' = [load EXCEPT !.ref = load.base, !.trusted = x]
      BY <1>5, <2>3 DEF Fetched, Contents
    <3>2. /\ load' \in Loads /\ load'.base = load.base
          /\ load'.ref = load.base /\ load'.trusted = x
          /\ load'.started = load.started /\ load'.asked = load.asked
      BY <1>1, <3>1 DEF Loads
    <3>3. LoadIsRecent'
      BY <1>1, <1>5, <2>3, <3>1, <3>2 DEF LoadIsRecent, Recent, Prefers
    <3>4. ResultIsRecent' /\ OnlyTrustedBranches'
      BY <1>1, <3>1, <3>2 DEF ResultIsRecent, OnlyTrustedBranches, Recent
    <3> QED
      BY <1>1, <3>1, <3>2, <3>3, <3>4
  <2>4. CASE x # NoFile /\ x.valid /\ ~Prefers(x, load.base)
    <3> DEFINE l == [load EXCEPT !.trusted = x]
    <3>1. x \in Texts /\ Choose(x, Default, l)
      BY <1>5, <2>4 DEF Fetched, Contents
    <3>2. l \in Loads /\ l.trusted = x
      BY <1>1 DEF Loads
    <3> HIDE DEF l
    <3>3. l = [load EXCEPT !.trusted = l.trusted]
      BY <3>2 DEF l
    <3> QED
      BY <1>4, <1>5, <2>4, <3>1, <3>2, <3>3
  <2> QED
    BY <2>1, <2>2, <2>3, <2>4
<1>6. CASE load.ref # Default
  <2>1. /\ load.trusted \in Texts /\ load.trusted.valid
        /\ Recent(Default, load.trusted)
        /\ load.ref \in load.trusted.trusts /\ load.ref = load.base
    BY <1>1, <1>6 DEF LoadIsRecent
  <2>2. load = [load EXCEPT !.trusted = load.trusted]
    BY <1>1 DEF Loads
  <2>3. CASE x = NoFile
    BY <1>1, <1>4, <1>6, <2>1, <2>2, <2>3 DEF Fetched
  <2>4. CASE x # NoFile /\ ~x.valid
    <3>1. x \in Texts
      BY <2>4 DEF Contents
    <3> QED
      BY <1>3, <1>6, <2>1, <2>4, <3>1 DEF Fetched, Kinds
  <2>5. CASE x # NoFile /\ x.valid
    <3>1. x \in Texts
      BY <2>5 DEF Contents
    <3> QED
      BY <1>1, <1>4, <1>6, <2>1, <2>2, <2>5, <3>1 DEF Fetched
  <2> QED
    BY <2>3, <2>4, <2>5
<1> QED
  BY <1>5, <1>6

\* Serving an entry, or sending a request.
LEMMA CachedFetchInv ==
  ASSUME LoaderInv, CachedFetch
  PROVE  LoaderInv'
<1> DEFINE e == cache[load.ref]
<1>1. /\ UNCHANGED <<now, file, gone, pushes, cache>>
      /\ LoaderTypeOK /\ load.ref \in Refs /\ now \in Nat
      /\ load.asked \in Nat /\ load.started \in Nat
      /\ load.started <= load.asked /\ load.asked <= now
  BY DEF CachedFetch, LoaderInv, LoaderTypeOK, Loads, LoadIsRecent
<1>2. EntriesAreTrue'
  BY <1>1 DEF LoaderInv, EntriesAreTrue, HadSince
<1>3. \A r \in Refs : ~cache'[r].cached => cache'[r].etag = NoFile
  BY <1>1 DEF LoaderInv
<1>4. CASE Fresh(e)
  <2>1. Fetched(e.text) /\ e.text \in Contents /\ e.at \in Nat
    BY <1>1, <1>4 DEF CachedFetch, LoaderTypeOK, Entries
  <2>2. HadSince(load.ref, e.text, e.at)
    BY <1>1, <1>4 DEF LoaderInv, EntriesAreTrue, Fresh
  <2>3. now < e.at + TTL
    BY <1>4 DEF Fresh
  <2> HIDE DEF e
  <2>4. load.started < e.at + TTL
    BY <1>1, <2>1, <2>3, NumbersAssumption
  <2>5. Recent(load.ref, e.text)
    BY <1>1, <2>1, <2>2, <2>4, SeenIsRecent
  <2> QED
    BY <1>1, <1>2, <1>3, <2>1, <2>5, FetchedInv DEF LoaderInv, LoaderTypeOK
<1>5. CASE ~Fresh(e)
  <2>1. /\ pc = "fetch" /\ pc' = "sent" /\ result' = result
        /\ load' = [load EXCEPT !.asked = now]
    BY <1>5 DEF CachedFetch
  <2>2. /\ load' \in Loads
        /\ load'.base = load.base /\ load'.started = load.started
        /\ load'.ref = load.ref /\ load'.trusted = load.trusted
        /\ load'.asked = now
    BY <1>1, <2>1 DEF LoaderTypeOK, Loads
  <2>3. LoaderTypeOK'
    BY <1>1, <2>1, <2>2 DEF LoaderTypeOK
  <2>4. LoadIsRecent'
    BY <1>1, <2>1, <2>2 DEF LoaderInv, LoadIsRecent, Recent
  <2>5. ResultIsRecent' /\ OnlyTrustedBranches'
    BY <1>1, <2>1, <2>2
    DEF LoaderInv, ResultIsRecent, OnlyTrustedBranches, Recent
  <2> QED
    BY <1>1, <1>2, <1>3, <2>3, <2>4, <2>5 DEF LoaderInv
<1> QED
  BY <1>4, <1>5

\* GitHub answers with what is there now.
LEMMA ServeInv ==
  ASSUME LoaderInv, Serve
  PROVE  LoaderInv'
<1>1. /\ UNCHANGED <<now, file, gone, pushes, cache, result>>
      /\ pc = "sent" /\ pc' = "answered" /\ LoaderTypeOK
      /\ load' = [load EXCEPT !.seen = file[load.ref]]
  BY DEF Serve, LoaderInv
<1>2. /\ load' \in Loads
      /\ load'.base = load.base /\ load'.started = load.started
      /\ load'.ref = load.ref /\ load'.trusted = load.trusted
      /\ load'.asked = load.asked /\ load'.seen = file[load.ref]
  BY <1>1 DEF LoaderTypeOK, Loads
<1>3. LoaderTypeOK'
  BY <1>1, <1>2 DEF LoaderTypeOK
<1>4. LoadIsRecent'
  BY <1>1, <1>2 DEF LoaderInv, LoadIsRecent, Recent, HadSince
<1>5. EntriesAreTrue' /\ ResultIsRecent' /\ OnlyTrustedBranches'
  BY <1>1, <1>2
  DEF LoaderInv, EntriesAreTrue, HadSince, ResultIsRecent,
      OnlyTrustedBranches, Recent
<1> QED
  BY <1>1, <1>3, <1>4, <1>5 DEF LoaderInv

\* An answer dated to its request is a true entry.
LEMMA KeepIsTrue ==
  ASSUME LoaderInv, pc = "answered", NEW x \in Contents, NEW tag \in {x, NoFile},
         x = load.seen,
         cache' = [cache EXCEPT ![load.ref] = Entry(tag, x, StampOf)],
         UNCHANGED <<now, file, gone>>
  PROVE  /\ cache' \in [Refs -> Entries]
         /\ \A r \in Refs : ~cache'[r].cached => cache'[r].etag = NoFile
         /\ EntriesAreTrue'
         /\ Recent(load.ref, x)
<1>1. /\ LoaderTypeOK /\ load.ref \in Refs /\ load.asked \in Nat
      /\ now \in Nat /\ load.started \in Nat
      /\ load.started <= load.asked /\ load.asked <= now
      /\ HadSince(load.ref, x, load.asked)
  BY DEF LoaderInv, LoaderTypeOK, Loads, LoadIsRecent
<1>2. Entry(tag, x, StampOf)
        = [cached |-> TRUE, etag |-> tag, text |-> x, at |-> load.asked]
  BY DEF Entry, StampOf
<1>3. cache' \in [Refs -> Entries]
  BY <1>1, <1>2 DEF LoaderTypeOK, Entries, Contents
<1>4. \A r \in Refs :
        cache'[r] = IF r = load.ref THEN Entry(tag, x, StampOf) ELSE cache[r]
  BY <1>1 DEF LoaderTypeOK
<1>5. EntriesAreTrue'
  <2> SUFFICES ASSUME NEW r \in Refs, cache'[r].cached
               PROVE  (/\ HadSince(r, cache[r].text, cache[r].at)
                       /\ cache[r].etag \in {NoFile, cache[r].text}
                       /\ cache[r].at <= now)'
    BY DEF EntriesAreTrue
  <2>1. CASE r = load.ref
    BY <1>1, <1>2, <1>4, <2>1 DEF HadSince
  <2>2. CASE r # load.ref
    BY <1>4, <2>2 DEF LoaderInv, EntriesAreTrue, HadSince
  <2> QED
    BY <2>1, <2>2
<1>6. \A r \in Refs : ~cache'[r].cached => cache'[r].etag = NoFile
  BY <1>2, <1>4 DEF LoaderInv
<1>7. load.started < load.asked + TTL
  BY <1>1, NumbersAssumption
<1>8. Recent(load.ref, x)
  BY <1>1, <1>7, SeenIsRecent
<1> QED
  BY <1>3, <1>5, <1>6, <1>8

\* A load that raises leaves nothing behind but the failure.
LEMMA RaiseInv ==
  ASSUME LoaderInv, Finish(Outcome("failed")),
         UNCHANGED <<now, file, gone, pushes, cache>>
  PROVE  LoaderInv'
<1>1. pc' = "idle" /\ load' = load /\ result' = Outcome("failed")
  BY DEF Finish
<1>2. LoaderTypeOK'
  BY <1>1, RefsAssumption
  DEF LoaderInv, LoaderTypeOK, Results, Outcome, Kinds, Contents
<1>3. LoadIsRecent' /\ EntriesAreTrue'
  BY <1>1 DEF LoaderInv, LoadIsRecent, EntriesAreTrue, Recent, HadSince
<1>4. ResultIsRecent' /\ OnlyTrustedBranches'
  BY <1>1 DEF ResultIsRecent, OnlyTrustedBranches, Outcome
<1> QED
  BY <1>2, <1>3, <1>4 DEF LoaderInv

\* The answer to a request: not modified, not there, there, or an error.
LEMMA AnswerInv ==
  ASSUME LoaderInv, Answer
  PROVE  LoaderInv'
<1> DEFINE e == cache[load.ref]
           x == load.seen
           Keep(tag) == cache' = [cache EXCEPT ![load.ref] =
                                                 Entry(tag, x, StampOf)]
<1>1. /\ pc = "answered" /\ UNCHANGED <<now, file, gone, pushes>>
      /\ LoaderTypeOK /\ x \in Contents /\ load.ref \in Refs
      /\ e \in Entries /\ NoFile \in Contents
  BY DEF Answer, LoaderInv, LoaderTypeOK, Loads, Contents
<1>2. ASSUME NEW tag \in {x, NoFile}, Keep(tag), Fetched(x)
      PROVE  LoaderInv'
  <2>1. /\ cache' \in [Refs -> Entries]
        /\ \A r \in Refs : ~cache'[r].cached => cache'[r].etag = NoFile
        /\ EntriesAreTrue'
        /\ Recent(load.ref, x)
    BY <1>1, <1>2, KeepIsTrue
  <2>2. /\ pc' \in {"idle", "fetch", "context"}
        /\ load' \in Loads /\ result' \in Results
        /\ LoadIsRecent' /\ ResultIsRecent' /\ OnlyTrustedBranches'
    BY <1>1, <1>2, <2>1, FetchedInv
  <2>3. LoaderTypeOK'
    BY <1>1, <2>1, <2>2 DEF LoaderTypeOK
  <2> QED
    BY <2>1, <2>2, <2>3 DEF LoaderInv
<1>3. CASE /\ e.etag # NoFile /\ e.etag = x
           /\ cache' = [cache EXCEPT ![load.ref] = [e EXCEPT !.at = StampOf]]
           /\ Fetched(e.text)
  <2>1. e.cached /\ e.etag \in {NoFile, e.text}
    BY <1>1, <1>3 DEF LoaderInv, EntriesAreTrue
  <2>2. e.text = x
    BY <1>3, <2>1
  <2>3. [e EXCEPT !.at = StampOf] = Entry(x, x, StampOf)
    <3>1. /\ e = [cached |-> e.cached, etag |-> e.etag, text |-> e.text,
                  at |-> e.at]
          /\ e.cached = TRUE
      BY <1>1, <2>1 DEF Entries
    <3> HIDE DEF e, x
    <3>2. [e EXCEPT !.at = StampOf]
            = [cached |-> e.cached, etag |-> e.etag, text |-> e.text,
               at |-> StampOf]
      BY <3>1
    <3> QED
      BY <1>3, <2>2, <3>1, <3>2 DEF Entry
  <2> QED
    BY <1>2, <1>3, <2>2, <2>3
<1>4. CASE /\ x = NoFile
           /\ cache' = [cache EXCEPT ![load.ref] = NotFoundEntry(e)]
           /\ Fetched(NoFile)
  BY <1>2, <1>4 DEF NotFoundEntry
<1>5. CASE /\ \E tag \in {x, NoFile} : Keep(tag)
           /\ Fetched(x)
  BY <1>2, <1>5
<1>6. CASE cache' = cache /\ Finish(Outcome("failed"))
  BY <1>1, <1>6, RaiseInv
<1> QED
  BY <1>3, <1>4, <1>5, <1>6 DEF Answer

\* The project context comes from the branch of the configuration.
LEMMA FetchContextInv ==
  ASSUME LoaderInv, FetchContext
  PROVE  LoaderInv'
<1>1. pc = "context" /\ UNCHANGED <<now, file, gone, pushes, cache>>
  BY DEF FetchContext
<1>2. ASSUME NEW c \in {{ContextRef(load.source)}, {}},
             Finish([kind |-> "config", source |-> load.source,
                     text |-> load.text, context |-> c])
      PROVE  LoaderInv'
  <2>1. /\ pc' = "idle" /\ load' = load
        /\ result' = [kind |-> "config", source |-> load.source,
                      text |-> load.text, context |-> c]
        /\ c \subseteq {load.source}
    BY <1>2 DEF Finish, ContextRef
  <2>2. load.source \in Refs /\ load.text \in Contents /\ c \subseteq Refs
    BY <2>1 DEF LoaderInv, LoaderTypeOK, Loads
  <2>3. LoaderTypeOK'
    BY <1>1, <2>1, <2>2 DEF LoaderInv, LoaderTypeOK, Results, Kinds
  <2>4. LoadIsRecent' /\ EntriesAreTrue'
    BY <1>1, <2>1 DEF LoaderInv, LoadIsRecent, EntriesAreTrue, Recent, HadSince
  <2>5. ResultIsRecent'
    BY <1>1, <2>1 DEF LoaderInv, LoadIsRecent, ResultIsRecent, Recent
  <2>6. OnlyTrustedBranches'
    BY <1>1, <2>1 DEF LoaderInv, LoadIsRecent, OnlyTrustedBranches, Recent
  <2> QED
    BY <1>1, <2>1, <2>3, <2>4, <2>5, <2>6 DEF LoaderInv
<1>3. CASE Finish(Outcome("failed"))
  BY <1>1, <1>3, RaiseInv
<1> QED
  BY <1>2, <1>3 DEF FetchContext

-----------------------------------------------------------------------------
\* The invariant of the loader, step by step.
LEMMA LoaderNextInv == LoaderInv /\ [LoaderNext]_loaderVars => LoaderInv'
<1> SUFFICES ASSUME LoaderInv, [LoaderNext]_loaderVars
             PROVE  LoaderInv'
  OBVIOUS
<1>1. CASE Tick \/ \E r \in Refs, x \in Contents : Push(r, x)
  BY <1>1, WorldInv
<1>2. CASE \E base \in Refs : Begin(base)
  BY <1>2, BeginInv
<1>3. CASE LoaderStep
  BY <1>3, CachedFetchInv, ServeInv, AnswerInv, FetchContextInv DEF LoaderStep
<1>4. CASE UNCHANGED loaderVars
  BY <1>4 DEF loaderVars, LoaderInv, LoaderTypeOK, EntriesAreTrue,
     LoadIsRecent, ResultIsRecent, OnlyTrustedBranches, Recent, HadSince
<1> QED
  BY <1>1, <1>2, <1>3, <1>4 DEF LoaderNext

\* RepoConfigLoader keeps its invariant, in every execution.
THEOREM LoaderInvariance == LoaderSpec => []LoaderInv
<1> QED
  BY LoaderInitInv, LoaderNextInv, PTL DEF LoaderSpec

\* load() comes to what GitHub had less than CACHE_TTL before it began,
\* whatever the cache held and whoever pushed meanwhile.
THEOREM ResultsAreRecent == LoaderSpec => []ResultIsRecent
<1>1. LoaderInv => ResultIsRecent
  BY DEF LoaderInv
<1> QED
  BY <1>1, LoaderInvariance, PTL

\* load() takes its configuration and its project_context_file from the
\* default branch, or from a base branch that the default branch's
\* trusted_base_branches named recently.
THEOREM TrustIsKept == LoaderSpec => []OnlyTrustedBranches
<1>1. LoaderInv => OnlyTrustedBranches
  BY DEF LoaderInv
<1> QED
  BY <1>1, LoaderInvariance, PTL

\* The loader's state keeps its type, its cache entries' dates included.
THEOREM LoaderTypes == LoaderSpec => []LoaderTypeOK
<1>1. LoaderInv => LoaderTypeOK
  BY DEF LoaderInv
<1> QED
  BY <1>1, LoaderInvariance, PTL

=============================================================================
