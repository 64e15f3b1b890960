--------------------------- MODULE RepoConfigLoader ---------------------------
(***************************************************************************)
(* RepoConfigLoader (config/repo.py): which text of .github/vidi-pr.yml    *)
(* decides about a pull request.  The default branch's file is always      *)
(* read; it may name base branches whose own file is preferred.  Fetches   *)
(* go through a cache with a time to live and ETag revalidation, while     *)
(* people push to the branches.                                            *)
(*                                                                         *)
(* One loader, one load after another.  (The handlers and the pipeline     *)
(* make a loader for each load, which is the case of a single load.)       *)
(* The repository is fixed, so a cache key is a branch.  Texts stand for   *)
(* what parsing makes of them; an ETag identifies the text it came with.   *)
(***************************************************************************)
EXTENDS Naturals

CONSTANTS
  Refs,        \* branches
  Default,     \* the repository's default branch
  Texts,       \* contents the file may have
  NoFile,      \* there is no such file, and no ETag
  TTL,         \* CACHE_TTL
  MaxTime,     \* bound on the clock
  MaxPushes    \* bound on the pushes that touch the file

\* What _parse makes of a text: is it valid, which branches does it list in
\* trusted_base_branches, does it name a project_context_file?
ASSUME TextsAssumption ==
  Texts \subseteq [valid : BOOLEAN, trusts : SUBSET Refs, context : BOOLEAN]
ASSUME RefsAssumption == Default \in Refs
ASSUME NoFileAssumption == NoFile \notin Texts
ASSUME NumbersAssumption ==
  TTL \in Nat \ {0} /\ MaxTime \in Nat /\ MaxPushes \in Nat

VARIABLES
  now,      \* the clock
  file,     \* GitHub: the file on each branch
  gone,     \* history: when a branch last ceased to have a text, 0 if never
  pushes,   \* how often the file was changed
  cache,    \* self._cache
  pc,       \* where load() is
  load,     \* its argument base_ref, when it began, and what it knows so far
  result    \* what the last load came to

loaderVars == <<now, file, gone, pushes, cache, pc, load, result>>

Contents == Texts \cup {NoFile}
Absence == [cached |-> FALSE, etag |-> NoFile, text |-> NoFile, at |-> 0]
Entries == [cached : BOOLEAN, etag : Contents, text : Contents, at : Nat]
Kinds == {"none", "failed", "absent", "invalid", "config"}
\* context: the branches whose project_context_file was taken in.
Results == [kind : Kinds, source : Refs, text : Contents,
            context : SUBSET Refs]
Outcome(k) == [kind |-> k, source |-> Default, text |-> NoFile,
               context |-> {}]

\* ref is the branch whose file is being fetched, asked the `now` of
\* _cached_fetch, seen what GitHub found there, trusted the parsed text of the
\* default branch, text and source the configuration chosen.
Loads == [base : Refs, started : Nat, ref : Refs, asked : Nat,
          seen : Contents, trusted : Contents, source : Refs, text : Contents]
NoLoad == [base |-> Default, started |-> TTL, ref |-> Default, asked |-> TTL,
           seen |-> NoFile, trusted |-> NoFile, source |-> Default,
           text |-> NoFile]

LoaderTypeOK ==
  /\ now \in Nat
  /\ file \in [Refs -> Contents]
  /\ gone \in [Refs -> [Contents -> Nat]]
  /\ pushes \in Nat
  /\ cache \in [Refs -> Entries]
  /\ pc \in {"idle", "fetch", "sent", "answered", "context"}
  /\ load \in Loads
  /\ result \in Results

\* The clock starts late enough for 0 to mean never.
LoaderInit ==
  /\ now = TTL
  /\ file \in [Refs -> Contents]
  /\ gone = [r \in Refs |-> [x \in Contents |-> 0]]
  /\ pushes = 0
  /\ cache = [r \in Refs |-> Absence]
  /\ pc = "idle"
  /\ load = NoLoad
  /\ result = Outcome("none")

-----------------------------------------------------------------------------
(* The world.                                                              *)

\* The wall clock of the code is taken not to be set back while a loader
\* lives: in production a loader lives for one load.
Tick ==
  /\ now < MaxTime
  /\ now' = now + 1
  /\ UNCHANGED <<file, gone, pushes, cache, pc, load, result>>

\* Somebody pushes to r and creates, changes or removes the file.
Push(r, x) ==
  /\ pushes < MaxPushes
  /\ x # file[r]
  /\ pushes' = pushes + 1
  /\ gone' = [gone EXCEPT ![r][file[r]] = now]
  /\ file' = [file EXCEPT ![r] = x]
  /\ UNCHANGED <<now, cache, pc, load, result>>

(* load().                                                                 *)

Begin(base) ==
  /\ pc = "idle"
  /\ pc' = "fetch"
  /\ load' = [NoLoad EXCEPT !.base = base, !.started = now, !.asked = now]
  /\ result' = Outcome("none")
  /\ UNCHANGED <<now, file, gone, pushes, cache>>

Finish(res) == pc' = "idle" /\ result' = res /\ UNCHANGED load

\* _resolve_project_context: the ref it reads the file from.
ContextRef(r) == r

\* The rest of load() once the configuration is chosen, as far as the next
\* await: return it, or go on to _resolve_project_context.
Choose(x, r, l) ==
  IF x.context
    THEN /\ pc' = "context"
         /\ load' = [l EXCEPT !.text = x, !.source = r]
         /\ UNCHANGED result
    ELSE /\ pc' = "idle"
         /\ load' = [l EXCEPT !.text = x, !.source = r]
         /\ result' = [kind |-> "config", source |-> r, text |-> x,
                       context |-> {}]

\* Mutant of Prefers: trusted_base_branches is not looked at.
Mutant_PrefersAnyBase(x, base) == base # Default

\* load(): may the base branch's own file be used?
Prefers(x, base) == base # Default /\ base \in x.trusts

\* load() after _cached_fetch has returned x for load.ref, up to its next
\* await.
Fetched(x) ==
  IF load.ref = Default
    THEN IF x = NoFile THEN Finish(Outcome("absent"))
         ELSE IF ~x.valid THEN Finish(Outcome("invalid"))
         ELSE IF Prefers(x, load.base)
           THEN /\ pc' = "fetch"
                /\ load' = [load EXCEPT !.ref = load.base, !.trusted = x]
                /\ UNCHANGED result
           ELSE Choose(x, Default, [load EXCEPT !.trusted = x])
    ELSE IF x = NoFile THEN Choose(load.trusted, Default, load)
         ELSE IF ~x.valid THEN Finish(Outcome("invalid"))
         ELSE Choose(x, load.ref, load)

\* _cached_fetch: now - entry.fetched_at < CACHE_TTL
Fresh(e) == e.cached /\ now < e.at + TTL

\* _cached_fetch: serve the entry, or ask GitHub.
CachedFetch ==
  /\ pc = "fetch"
  /\ IF Fresh(cache[load.ref])
       THEN Fetched(cache[load.ref].text)
       ELSE /\ pc' = "sent"
            /\ load' = [load EXCEPT !.asked = now]
            /\ UNCHANGED result
  /\ UNCHANGED <<now, file, gone, pushes, cache>>

Entry(tag, x, t) == [cached |-> TRUE, etag |-> tag, text |-> x, at |-> t]

\* Mutants of StampOf: the entry is dated when the answer arrives; it is
\* stored as expired.
Mutant_StampOnArrival == now
Mutant_StampExpired == load.asked - (TTL + 1)

\* The fetched_at of an entry: the `now` read before the request was sent.
StampOf == load.asked

\* _cached_fetch on a 404.
NotFoundEntry(e) == Entry(NoFile, NoFile, StampOf)

\* GitHub looks the file up.
Serve ==
  /\ pc = "sent"
  /\ pc' = "answered"
  /\ load' = [load EXCEPT !.seen = file[load.ref]]
  /\ UNCHANGED <<now, file, gone, pushes, cache, result>>

\* _cached_fetch after fetch_text, which sent the entry's ETag along.
Answer ==
  LET r == load.ref
      x == load.seen
      e == cache[r]
      Keep(entry) == cache' = [cache EXCEPT ![r] = entry]
  IN /\ pc = "answered"
     /\ \/ /\ e.etag # NoFile /\ e.etag = x                 \* 304
           /\ Keep([e EXCEPT !.at = StampOf])
           /\ Fetched(e.text)
        \/ /\ x = NoFile                                    \* 404
           /\ Keep(NotFoundEntry(e))
           /\ Fetched(NoFile)
        \/ /\ x # NoFile /\ e.etag # x                      \* 200
           /\ \E tag \in {x, NoFile} : Keep(Entry(tag, x, StampOf))
           /\ Fetched(x)
        \/ UNCHANGED cache /\ Finish(Outcome("failed"))     \* it raises
     /\ UNCHANGED <<now, file, gone, pushes>>

\* _resolve_project_context: found, not found, or it raises.
FetchContext ==
  /\ pc = "context"
  /\ \/ \E c \in {{ContextRef(load.source)}, {}} :
          Finish([kind |-> "config", source |-> load.source,
                  text |-> load.text, context |-> c])
     \/ Finish(Outcome("failed"))
  /\ UNCHANGED <<now, file, gone, pushes, cache>>

LoaderStep == CachedFetch \/ Serve \/ Answer \/ FetchContext

LoaderNext ==
  \/ Tick
  \/ \E r \in Refs, x \in Contents : Push(r, x)
  \/ \E base \in Refs : Begin(base)
  \/ LoaderStep

LoaderSpec == LoaderInit /\ [][LoaderNext]_loaderVars

-----------------------------------------------------------------------------
(* Correctness.                                                            *)

\* Branch r has had text x at time t or later.
HadSince(r, x, t) == file[r] = x \/ gone[r][x] >= t

\* Branch r has had text x less than a TTL before the load began.
Recent(r, x) == file[r] = x \/ gone[r][x] + TTL > load.started

\* What a load comes to was on GitHub less than a TTL before the load began,
\* whatever was cached, revalidated or pushed meanwhile: the text it returns,
\* the absence that makes it fall back to the defaults, and the broken text
\* it complains about.
ResultIsRecent ==
  /\ result.kind = "absent" => Recent(Default, NoFile)
  /\ result.kind = "invalid" =>
       \E r \in {Default, load.base}, x \in Texts : ~x.valid /\ Recent(r, x)
  /\ result.kind = "config" => Recent(result.source, result.text)

\* load, steps 1 to 3: only the default branch, and a base branch that the
\* default branch named recently, have a say, and the project_context_file
\* is taken from the branch the configuration is from.
OnlyTrustedBranches ==
  result.kind = "config" =>
    /\ \/ result.source = Default
       \/ /\ result.source = load.base
          /\ \E x \in Texts : /\ x.valid /\ load.base \in x.trusts
                              /\ Recent(Default, x)
    /\ result.context \subseteq {result.source}

\* What makes the two inductive: an entry's text was on its branch when the
\* entry is dated or later, its ETag is that text's, and what the load has
\* learned so far is recent.
EntriesAreTrue ==
  \A r \in Refs : cache[r].cached =>
    /\ HadSince(r, cache[r].text, cache[r].at)
    /\ cache[r].etag \in {NoFile, cache[r].text}
    /\ cache[r].at <= now
LoadIsRecent ==
  /\ load.started <= load.asked /\ load.asked <= now /\ TTL <= load.started
  /\ load.ref \in {Default, load.base}
  /\ load.ref # Default \/ pc = "context" =>
       /\ load.trusted \in Texts /\ load.trusted.valid
       /\ Recent(Default, load.trusted)
  /\ load.ref # Default => load.ref \in load.trusted.trusts
  /\ pc = "answered" => HadSince(load.ref, load.seen, load.asked)
  /\ pc = "context" =>
       /\ load.text \in Texts
       /\ load.source \in {Default, load.ref}
       /\ Recent(load.source, load.text)
LoaderInv ==
  /\ LoaderTypeOK
  /\ \A r \in Refs : ~cache[r].cached => cache[r].etag = NoFile
  /\ EntriesAreTrue
  /\ LoadIsRecent
  /\ ResultIsRecent
  /\ OnlyTrustedBranches

=============================================================================
