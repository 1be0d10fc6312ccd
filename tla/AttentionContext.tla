-------------------------- MODULE AttentionContext --------------------------
(***************************************************************************)
(* The lifecycle of the attention metadata shared between the engine and   *)
(* the model (crates/vllm-oxide/src/attention/mod.rs).  Each operator is   *)
(* one critical section of the runtime lock; its guard is the condition    *)
(* under which the method succeeds, and a method that fails changes        *)
(* nothing.                                                                *)
(***************************************************************************)
EXTENDS Integers

NoEpoch == -1

VARIABLES
  lifecycle,          \* "idle", "preparing" or "ready"
  epoch,              \* epoch being prepared or active, NoEpoch when idle
  consumer            \* bound_consumer, NoEpoch for None

attnVars == <<lifecycle, epoch, consumer>>

AttnInit == lifecycle = "idle" /\ epoch = NoEpoch /\ consumer = NoEpoch

AttnIdle == lifecycle = "idle" /\ consumer = NoEpoch

(* reserve: the first half of prepare.                                     *)
ReserveEpoch(e) ==
  /\ AttnIdle
  /\ lifecycle' = "preparing"
  /\ epoch' = e
  /\ UNCHANGED consumer

(* complete_preparation: publish the uploaded metadata ...                 *)
PublishEpoch(e) ==
  /\ lifecycle = "preparing"
  /\ epoch = e
  /\ consumer = NoEpoch
  /\ lifecycle' = "ready"
  /\ UNCHANGED <<epoch, consumer>>

(* Mutant of CancelPreparation: the reservation stays.                     *)
MutCancelPreparation(e) ==
  /\ lifecycle = "preparing"
  /\ epoch = e
  /\ UNCHANGED attnVars

(* ... or, when an upload fails, drop the reservation.                     *)
CancelPreparation(e) ==
  /\ lifecycle = "preparing"
  /\ epoch = e
  /\ lifecycle' = "idle"
  /\ epoch' = NoEpoch
  /\ UNCHANGED consumer

BindConsumer(e) ==
  /\ lifecycle = "ready"
  /\ epoch = e
  /\ consumer = NoEpoch
  /\ consumer' = e
  /\ UNCHANGED <<lifecycle, epoch>>

(* prepared_for_bound_consumer: what the model may read.                   *)
MetadataReadable == lifecycle = "ready" /\ consumer = epoch

ReleaseConsumer(e) ==
  /\ consumer = e
  /\ consumer' = NoEpoch
  /\ UNCHANGED <<lifecycle, epoch>>

(* Mutant of ReleaseEpoch: does not wait for the consumer.                 *)
MutReleaseEpoch(e) ==
  /\ lifecycle = "ready"
  /\ epoch = e
  /\ lifecycle' = "idle"
  /\ epoch' = NoEpoch
  /\ UNCHANGED consumer

ReleaseEpoch(e) ==
  /\ consumer = NoEpoch
  /\ lifecycle = "ready"
  /\ epoch = e
  /\ lifecycle' = "idle"
  /\ epoch' = NoEpoch
  /\ UNCHANGED consumer
=============================================================================
