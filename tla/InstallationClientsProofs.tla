----------------------- MODULE InstallationClientsProofs -----------------------
(***************************************************************************)
(* Proofs about InstallationClients, for any number of callers and of      *)
(* refusals.                                                               *)
(*                                                                         *)
(* The inductive invariant is ClientsInv: the cached client is the newest  *)
(* one made, there is one more of them than there were first attempts      *)
(* refused, and no call holds a newer one.                                 *)
(***************************************************************************)
EXTENDS InstallationClients, TLAPS

\* What a call is made of.
LEMMA CallFields ==
  ASSUME ClientsTypeOK, NEW c \in Callers
  PROVE  /\ calls[c].inst \in Installations
         /\ calls[c].client \in Nat
         /\ calls[c].pc \in {"idle", "sent", "retried"}
         /\ calls[c].pc # "idle" => calls[c] \in OpenCalls
         /\ made[calls[c].inst] \in Nat /\ refusals[calls[c].inst] \in Nat
         /\ IdleCall(calls[c].inst) \in IdleCalls
<1>1. \/ calls[c] \in OpenCalls
      \/ \E i \in Installations : calls[c] = IdleCall(i)
  BY DEF ClientsTypeOK, IdleCalls
<1>2. CASE calls[c] \in OpenCalls
  <2>1. /\ calls[c].inst \in Installations
        /\ calls[c].client \in Nat
        /\ calls[c].pc \in {"idle", "sent", "retried"}
    BY <1>2 DEF OpenCalls
  <2> QED
    BY <1>2, <2>1 DEF ClientsTypeOK, IdleCalls
<1>3. ASSUME NEW i \in Installations, calls[c] = IdleCall(i)
      PROVE  /\ calls[c].inst = i /\ calls[c].client = 0
             /\ calls[c].pc = "idle"
  BY <1>3 DEF IdleCall, NoClient
<1>4. CASE \E i \in Installations : calls[c] = IdleCall(i)
  BY <1>3, <1>4 DEF ClientsTypeOK, IdleCalls
<1> QED
  BY <1>1, <1>2, <1>4

\* Nothing has been made.
LEMMA ClientsInitInv == ClientsInit => ClientsInv
<1> SUFFICES ASSUME ClientsInit PROVE ClientsInv
  OBVIOUS
<1>1. ClientsTypeOK
  BY DEF ClientsInit, ClientsTypeOK, NoClient
<1>2. NewestIsCached
  BY DEF ClientsInit, NewestIsCached, NoClient
<1>3. CallsAreBehind
  BY DEF ClientsInit, CallsAreBehind, IdleCalls, IdleCall, NoClient
<1> QED
  BY <1>1, <1>2, <1>3 DEF ClientsInv

\* _gh: the newest client, cached if there is one and made if not.
LEMMA BeginInv ==
  ASSUME ClientsInv, NEW c \in Callers, NEW i \in Installations,
         NEW p \in BOOLEAN, Begin(c, i, p)
  PROVE  ClientsInv'
<1> DEFINE client == Handed(i, installations)
           call == [pc |-> "sent", inst |-> i, client |-> client,
                    paged |-> p]
<1>1. /\ ClientsTypeOK
      /\ made[i] \in Nat /\ installations[i] = made[i]
      /\ refusals[i] \in Nat
  BY DEF ClientsInv, ClientsTypeOK, NewestIsCached
<1>2. /\ client \in Nat \ {NoClient}
      /\ made[i] = 0 => client = 1
      /\ made[i] # 0 => client = made[i]
  BY <1>1 DEF Handed, NoClient
<1>3. /\ calls' = [calls EXCEPT ![c] = call]
      /\ installations' = [installations EXCEPT ![i] = client]
      /\ made' = [made EXCEPT ![i] = client]
      /\ UNCHANGED refusals
  BY <1>1 DEF Begin, Cache, Handed, NoClient, ClientsTypeOK
<1>4. call \in OpenCalls
  BY <1>2 DEF OpenCalls
<1> HIDE DEF client
<1>5. ClientsTypeOK'
  BY <1>1, <1>2, <1>3, <1>4 DEF ClientsTypeOK
<1>6. \A k \in Installations :
        /\ made[k] \in Nat /\ made'[k] \in Nat /\ made[k] <= made'[k]
        /\ k # i => /\ made'[k] = made[k]
                    /\ installations'[k] = installations[k]
        /\ k = i => made'[k] = client /\ installations'[k] = client
  BY <1>1, <1>2, <1>3 DEF ClientsTypeOK
<1>7. NewestIsCached'
  <2> SUFFICES ASSUME NEW k \in Installations
               PROVE  /\ installations'[k] = made'[k]
                      /\ made'[k] = 0 => refusals[k] = 0
                      /\ made'[k] # 0 => made'[k] = refusals[k] + 1
    BY <1>3 DEF NewestIsCached
  <2>1. /\ installations[k] = made[k]
        /\ made[k] = 0 => refusals[k] = 0
        /\ made[k] # 0 => made[k] = refusals[k] + 1
    BY DEF ClientsInv, NewestIsCached, ClientsTypeOK
  <2> QED
    BY <1>2, <1>6, <2>1 DEF NoClient
<1>8. CallsAreBehind'
  <2> SUFFICES ASSUME NEW d \in Callers
               PROVE  calls'[d].client <= made'[calls'[d].inst]
    BY DEF CallsAreBehind
  <2>1. CASE d = c
    <3>1. calls'[d] = call
      BY <1>1, <1>3, <2>1 DEF ClientsTypeOK
    <3> QED
      BY <1>2, <1>6, <3>1
  <2>2. CASE d # c
    <3>1. calls'[d] = calls[d]
      BY <1>1, <1>3, <2>2 DEF ClientsTypeOK
    <3> QED
      BY <1>1, <1>6, <3>1, CallFields DEF ClientsInv, CallsAreBehind
  <2> QED
    BY <2>1, <2>2
<1> QED
  BY <1>5, <1>7, <1>8 DEF ClientsInv

\* A call ends: the clients stay.
LEMMA EndsInv ==
  ASSUME ClientsInv, NEW c \in Callers, Ends(c),
         UNCHANGED <<installations, made, refusals>>
  PROVE  ClientsInv'
<1>1. ClientsTypeOK /\ CallsAreBehind
  BY DEF ClientsInv
<1>2. /\ calls' = [calls EXCEPT ![c] = IdleCall(calls[c].inst)]
      /\ IdleCall(calls[c].inst) \in IdleCalls
  BY <1>1, CallFields DEF Ends
<1>3. ClientsTypeOK'
  BY <1>1, <1>2 DEF ClientsTypeOK
<1>4. NewestIsCached'
  BY DEF ClientsInv, NewestIsCached
<1>5. CallsAreBehind'
  <2> SUFFICES ASSUME NEW d \in Callers
               PROVE  calls'[d].client <= made[calls'[d].inst]
    BY DEF CallsAreBehind
  <2>1. CASE d = c
    <3>1. calls'[d] = IdleCall(calls[c].inst)
      BY <1>1, <1>2, <2>1 DEF ClientsTypeOK
    <3> QED
      BY <1>1, <3>1, CallFields DEF IdleCall, NoClient
  <2>2. CASE d # c
    <3>1. calls'[d] = calls[d]
      BY <1>1, <1>2, <2>2 DEF ClientsTypeOK
    <3> QED
      BY <1>1, <3>1 DEF CallsAreBehind
  <2> QED
    BY <2>1, <2>2
<1> QED
  BY <1>3, <1>4, <1>5 DEF ClientsInv

\* A 401: the client cached by then is replaced by a new one.
LEMMA RetryInv ==
  ASSUME ClientsInv, NEW c \in Callers, RetryAuth(c)
  PROVE  ClientsInv'
<1> DEFINE i == calls[c].inst
           next == made[i] + 1
           call == [calls[c] EXCEPT !.pc = "retried", !.client = next]
<1>1. /\ ClientsTypeOK /\ CallsAreBehind /\ calls[c].pc = "sent"
      /\ i \in Installations /\ made[i] \in Nat /\ refusals[i] \in Nat
      /\ calls[c] \in OpenCalls
      /\ calls[c].client \in Nat \ {NoClient} /\ calls[c].client <= made[i]
  BY CallFields DEF ClientsInv, RetryAuth, CallsAreBehind, OpenCalls
<1>2. Dropped(i)[i] = NoClient /\ Handed(i, Dropped(i)) = next
  BY <1>1 DEF Dropped, Handed, ClientsTypeOK
<1>3. /\ installations' = [installations EXCEPT ![i] = next]
      /\ made' = [made EXCEPT ![i] = next]
  BY <1>1, <1>2 DEF RetryAuth, Cache, Dropped, ClientsTypeOK
<1>4. /\ calls' = [calls EXCEPT ![c] = call]
      /\ refusals' = [refusals EXCEPT ![i] = @ + 1]
  BY <1>1, <1>2 DEF RetryAuth, OpenCalls, ClientsTypeOK
<1>5. /\ call \in OpenCalls /\ call.inst = i /\ call.client = next
      /\ call.pc = "retried"
  <2>1. next \in Nat \ {NoClient}
    BY <1>1 DEF NoClient
  <2> HIDE DEF next
  <2> QED
    BY <1>1, <2>1 DEF OpenCalls
<1> HIDE DEF i, call
<1>6. ClientsTypeOK'
  <2>1. /\ installations' \in [Installations -> Nat]
        /\ made' \in [Installations -> Nat]
        /\ refusals' \in [Installations -> Nat]
    BY <1>1, <1>3, <1>4 DEF ClientsTypeOK
  <2>2. calls' \in [Callers -> IdleCalls \cup OpenCalls]
    BY <1>1, <1>4, <1>5 DEF ClientsTypeOK
  <2> QED
    BY <2>1, <2>2 DEF ClientsTypeOK
<1>7. \A k \in Installations :
        /\ k # i => /\ made'[k] = made[k] /\ refusals'[k] = refusals[k]
                    /\ installations'[k] = installations[k]
        /\ k = i => /\ made'[k] = next /\ refusals'[k] = refusals[i] + 1
                    /\ installations'[k] = next
  BY <1>1, <1>3, <1>4 DEF ClientsTypeOK
<1>8. NewestIsCached'
  <2> SUFFICES ASSUME NEW k \in Installations
               PROVE  /\ installations'[k] = made'[k]
                      /\ made'[k] = 0 => refusals'[k] = 0
                      /\ made'[k] # 0 => made'[k] = refusals'[k] + 1
    BY DEF NewestIsCached
  <2>1. /\ installations[k] = made[k]
        /\ made[k] = 0 => refusals[k] = 0
        /\ made[k] # 0 => made[k] = refusals[k] + 1
    BY DEF ClientsInv, NewestIsCached, ClientsTypeOK
  <2>2. CASE k # i
    BY <1>7, <2>1, <2>2
  <2>3. CASE k = i
    <3>1. made[i] # 0
      BY <1>1 DEF NoClient
    <3> QED
      BY <1>1, <1>7, <2>1, <2>3, <3>1
  <2> QED
    BY <2>2, <2>3
<1>9. CallsAreBehind'
  <2> SUFFICES ASSUME NEW d \in Callers
               PROVE  calls'[d].client <= made'[calls'[d].inst]
    BY DEF CallsAreBehind
  <2>1. CASE d = c
    <3>1. calls'[d] = call
      BY <1>1, <1>4, <2>1 DEF ClientsTypeOK
    <3> QED
      BY <1>1, <1>5, <1>7, <3>1
  <2>2. CASE d # c
    <3>1. calls'[d] = calls[d]
      BY <1>1, <1>4, <2>2 DEF ClientsTypeOK
    <3>2. /\ calls[d].inst \in Installations /\ calls[d].client \in Nat
          /\ made[calls[d].inst] \in Nat
          /\ made[calls[d].inst] <= made'[calls[d].inst]
      BY <1>1, <1>7, CallFields
    <3> QED
      BY <1>1, <1>6, <3>1, <3>2 DEF CallsAreBehind, ClientsTypeOK
  <2> QED
    BY <2>1, <2>2
<1> QED
  BY <1>6, <1>8, <1>9 DEF ClientsInv

\* Every step keeps the invariant.
LEMMA ClientsNextInv ==
  ASSUME ClientsInv, [ClientsNext]_clientVars
  PROVE  ClientsInv'
<1>1. CASE UNCHANGED clientVars
  BY <1>1 DEF clientVars, ClientsInv, ClientsTypeOK, NewestIsCached,
              CallsAreBehind
<1>2. ASSUME NEW c \in Callers, NEW i \in Installations, NEW p \in BOOLEAN,
             Begin(c, i, p)
      PROVE  ClientsInv'
  BY <1>2, BeginInv
<1>3. ASSUME NEW c \in Callers, Answered(c) \/ GiveUp(c)
      PROVE  ClientsInv'
  BY <1>3, EndsInv DEF Answered, GiveUp
<1>4. ASSUME NEW c \in Callers, RetryAuth(c)
      PROVE  ClientsInv'
  BY <1>4, RetryInv
<1>5. ASSUME NEW c \in Callers, NextPage(c)
      PROVE  ClientsInv'
  BY <1>1, <1>5 DEF NextPage
<1> QED
  BY <1>1, <1>2, <1>3, <1>4, <1>5 DEF ClientsNext

\* The cached client is the newest, and no call holds a newer one.
THEOREM ClientsInvariance == ClientsSpec => []ClientsInv
BY ClientsInitInv, ClientsNextInv, PTL DEF ClientsSpec

\* _gh always hands out a client, and never an empty slot.
THEOREM ClientsTypes == ClientsSpec => []ClientsTypeOK
<1>1. ClientsInv => ClientsTypeOK
  BY DEF ClientsInv
<1> QED
  BY <1>1, ClientsInvariance, PTL

\* _drop_cached: each refusal costs its installation at most one client,
\* whichever client it throws away.
THEOREM RefusalsCostOneClient == ClientsSpec => []OneClientPerRefusal
<1>1. ASSUME ClientsInv PROVE OneClientPerRefusal
  <2> SUFFICES ASSUME NEW i \in Installations
               PROVE  made[i] <= refusals[i] + 1
    BY DEF OneClientPerRefusal
  <2>1. /\ made[i] \in Nat /\ refusals[i] \in Nat
        /\ made[i] = 0 \/ made[i] = refusals[i] + 1
    BY <1>1 DEF ClientsInv, ClientsTypeOK, NewestIsCached
  <2> QED
    BY <2>1
<1> QED
  BY <1>1, ClientsInvariance, PTL

=============================================================================
