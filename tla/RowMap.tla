-------------------------------- MODULE RowMap --------------------------------
(***************************************************************************)
(* What a RowStore promises its queue (packages/queue/src/persist/         *)
(* contracts.ts): a set of rows that one call at a time changes whole or    *)
(* not at all.  A call that returns has changed it, a call that throws has  *)
(* not, and a crash leaves one or the other.  DurableQueue takes its store  *)
(* to be this.                                                             *)
(***************************************************************************)
CONSTANT Contents   \* the sets of rows a store may hold

VARIABLES
  contents,         \* the rows a load would return
  call              \* the running call: contents before and after; NoCall

NoRows == [i \in {} |-> i]
NoCall == [from |-> NoRows, to |-> NoRows, on |-> FALSE]

Begin ==
  /\ ~call.on
  /\ \E to \in Contents : call' = [from |-> contents, to |-> to, on |-> TRUE]
  /\ UNCHANGED contents

Apply ==
  /\ call.on /\ contents = call.from
  /\ contents' = call.to
  /\ UNCHANGED call

Return ==
  /\ call.on /\ contents = call.to
  /\ call' = NoCall
  /\ UNCHANGED contents

Throw ==
  /\ call.on /\ contents = call.from
  /\ call' = NoCall
  /\ UNCHANGED contents

Crash ==
  /\ call.on /\ contents \in {call.from, call.to}
  /\ call' = NoCall
  /\ UNCHANGED contents

Next == Begin \/ Apply \/ Return \/ Throw \/ Crash

Spec == contents \in Contents /\ call = NoCall /\ [][Next]_<<contents, call>>
=============================================================================
