-------------------------- MODULE InstallationClients --------------------------
(***************************************************************************)
(* InstallationClients (transport/github_client.py): the one GitHub client *)
(* per installation that all calls share, and what a 401 does to it.  The  *)
(* worker and the request handlers call at the same time; a call that is   *)
(* refused drops whatever client is cached by then, perhaps one that       *)
(* another call has just made.                                             *)
(*                                                                         *)
(* GitHub may refuse any request.  Whether a new client brings a new token *)
(* is up to githubkit, whose token cache all clients share; the module is  *)
(* about clients, numbered as they are made.  (The token mode of the dry   *)
(* run has one client and no other caller.)                                *)
(***************************************************************************)
EXTENDS Naturals

CONSTANTS
  Installations,
  Callers,       \* tasks that may have a call under way
  MaxRefusals    \* bound on the refusals of each installation

ASSUME RefusalsAssumption == MaxRefusals \in Nat

VARIABLES
  installations,  \* self._installations: the cached client, 0 for none
  made,           \* how many clients were made for each
  calls,          \* the call each caller has under way
  refusals        \* history: how many first attempts got a 401

clientVars == <<installations, made, calls, refusals>>

NoClient == 0

\* A paged call fetches page after page with the client it began with.
IdleCall(i) == [pc |-> "idle", inst |-> i, client |-> NoClient, paged |-> FALSE]
IdleCalls == {IdleCall(i) : i \in Installations}
OpenCalls == [pc : {"sent", "retried"}, inst : Installations,
              client : Nat \ {NoClient}, paged : BOOLEAN]

ClientsTypeOK ==
  /\ installations \in [Installations -> Nat]
  /\ made \in [Installations -> Nat]
  /\ calls \in [Callers -> IdleCalls \cup OpenCalls]
  /\ refusals \in [Installations -> Nat]

ClientsInit ==
  /\ installations = [i \in Installations |-> NoClient]
  /\ made = [i \in Installations |-> 0]
  /\ calls \in [Callers -> IdleCalls]
  /\ refusals = [i \in Installations |-> 0]

-----------------------------------------------------------------------------
\* Mutant of Handed: _gh returns what it found.
Mutant_ReturnCached(i, cached) == cached[i]

\* _gh: the cached client, or a new one.
Handed(i, cached) == IF cached[i] # NoClient THEN cached[i] ELSE made[i] + 1

\* _gh caches what it hands out.
Cache(i, cached) ==
  /\ installations' = [cached EXCEPT ![i] = Handed(i, cached)]
  /\ made' = [made EXCEPT ![i] = IF cached[i] # NoClient THEN @ ELSE @ + 1]

\* A call gets its client; its first request is on its way.
Begin(c, i, paged) ==
  LET client == Handed(i, installations)
  IN /\ calls[c].pc = "idle"
     /\ Cache(i, installations)
     /\ calls' = [calls EXCEPT ![c] =
                   [pc |-> "sent", inst |-> i, client |-> client,
                    paged |-> paged]]
     /\ UNCHANGED refusals

Ends(c) == calls' = [calls EXCEPT ![c] = IdleCall(@.inst)]

\* The request succeeds, or fails with anything but a 401: the call returns
\* or raises what _map_error makes of it.
Answered(c) ==
  /\ calls[c].pc # "idle"
  /\ Ends(c)
  /\ UNCHANGED <<installations, made, refusals>>

\* paginate: there are more pages.
NextPage(c) ==
  /\ calls[c].pc = "sent" /\ calls[c].paged
  /\ UNCHANGED clientVars

\* Mutant of Dropped: the clients of all installations are.
Mutant_DropAll(i) == [k \in Installations |-> NoClient]

\* _drop_cached, whichever client is there.
Dropped(i) == [installations EXCEPT ![i] = NoClient]

\* _with_auth_retry: a 401 on the first attempt.  _drop_cached does not
\* suspend, so nobody comes between the drop and _gh.
RetryAuth(c) ==
  LET i == calls[c].inst
  IN /\ calls[c].pc = "sent" /\ ~calls[c].paged
     /\ refusals[i] < MaxRefusals
     /\ Cache(i, Dropped(i))
     /\ calls' = [calls EXCEPT ![c].pc = "retried",
                               ![c].client = Handed(i, Dropped(i))]
     /\ refusals' = [refusals EXCEPT ![i] = @ + 1]

\* A 401 on the second attempt, or on a page: the call raises.  The client
\* that was refused stays cached, and the next call gets it.
GiveUp(c) ==
  /\ \/ calls[c].pc = "retried"
     \/ calls[c].pc = "sent" /\ calls[c].paged
  /\ Ends(c)
  /\ UNCHANGED <<installations, made, refusals>>

ClientsNext ==
  \E c \in Callers :
    \/ \E i \in Installations, p \in BOOLEAN : Begin(c, i, p)
    \/ Answered(c) \/ NextPage(c) \/ RetryAuth(c) \/ GiveUp(c)

ClientsSpec == ClientsInit /\ [][ClientsNext]_clientVars

-----------------------------------------------------------------------------
(* Correctness.                                                            *)

\* _drop_cached pops whatever is cached: concurrent refusals throw away each
\* other's new client, but each costs its own installation one client and no
\* other installation any.
OneClientPerRefusal ==
  \A i \in Installations : made[i] <= refusals[i] + 1

\* What makes it inductive: the cached client is the newest there is, and no
\* call holds a newer one.
NewestIsCached ==
  \A i \in Installations :
    /\ installations[i] = made[i]
    /\ made[i] = 0 => refusals[i] = 0
    /\ made[i] # 0 => made[i] = refusals[i] + 1
CallsAreBehind ==
  \A c \in Callers : calls[c].client <= made[calls[c].inst]
ClientsInv == ClientsTypeOK /\ NewestIsCached /\ CallsAreBehind

=============================================================================
