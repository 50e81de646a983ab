----------------------------- MODULE VirtioBlk -----------------------------
(***************************************************************************)
(* do_request of src/src/virtio_blk.rs and the device behind its queue.    *)
(*                                                                         *)
(* The driver always uses descriptors 0 to 2, and the header, the buffer   *)
(* and the status byte they point to are locals of the call: a later call  *)
(* may find them at the same place in the stack or at another one.  The    *)
(* device fetches a request, and some time later moves the data, writes    *)
(* the status byte and advances used.idx.                                  *)
(***************************************************************************)
EXTENDS Naturals, FiniteSets

CONSTANTS
    SectorIds,
    Places,         \* where the locals of a call can be
    IdxMod,         \* 2^16 in the code
    Served,         \* requests served before the behaviour starts
    MaxRequests     \* bound: calls of do_request

VARIABLES
    call,           \* the driver's call, or Idle
    desc,           \* what the descriptors say
    avail, used,    \* avail.idx and used.idx
    last_used_idx,
    taken,          \* avail entries the device has fetched (mod IdxMod)
    busy,           \* the request the device works on, or Idle
    buf, status,    \* buf[p], status[p]: the locals at p
    sector,         \* sector[s]: the contents of the disk
    requests, timeouts,
    outcome         \* the request that has just returned, and how

bvars == <<call, desc, avail, used, last_used_idx, taken, busy, buf, status, sector,
           requests, timeouts, outcome>>

Idle == [op |-> "none"]

Values == 0 .. MaxRequests  \* 0 is what the disk holds at first; request k writes k

\* The state when init has returned, Served requests later.
Init ==
    /\ call = Idle /\ desc = Idle /\ busy = Idle /\ outcome = Idle
    /\ avail = Served /\ used = Served /\ last_used_idx = Served /\ taken = Served
    /\ buf = [p \in Places |-> 0]
    /\ status = [p \in Places |-> 255]
    /\ sector = [s \in SectorIds |-> 0]
    /\ requests = 0 /\ timeouts = 0

\* Nothing of an earlier request is on its way.
Quiet == busy = Idle /\ taken = avail /\ used = last_used_idx

\* Variant: the descriptors are set up by the first request only.
Submit_once(op) ==
    /\ call = Idle /\ requests < MaxRequests
    /\ requests' = requests + 1
    /\ \E s \in SectorIds, p \in Places :
          /\ desc' = IF desc = Idle THEN [op |-> op, s |-> s, p |-> p] ELSE desc
          /\ call' = [op |-> op, s |-> s, p |-> p, v |-> requests', quiet |-> Quiet]
          /\ buf' = [buf EXCEPT ![p] = IF op = "write" THEN requests' ELSE 0]
          /\ status' = [status EXCEPT ![p] = 255]
    /\ avail' = (avail + 1) % IdxMod
    /\ outcome' = Idle
    /\ UNCHANGED <<used, last_used_idx, taken, busy, sector, timeouts>>

\* do_request up to the notification.
Submit(op) ==
    /\ call = Idle /\ requests < MaxRequests
    /\ requests' = requests + 1
    /\ \E s \in SectorIds, p \in Places :
          /\ desc' = [op |-> op, s |-> s, p |-> p]
          /\ call' = [op |-> op, s |-> s, p |-> p, v |-> requests', quiet |-> Quiet]
          /\ buf' = [buf EXCEPT ![p] = IF op = "write" THEN requests' ELSE 0]
          /\ status' = [status EXCEPT ![p] = 255]
    /\ avail' = (avail + 1) % IdxMod
    /\ outcome' = Idle
    /\ UNCHANGED <<used, last_used_idx, taken, busy, sector, timeouts>>

\* The device follows the descriptors as they are now.
Fetch ==
    /\ busy = Idle /\ taken # avail
    /\ busy' = desc
    /\ taken' = (taken + 1) % IdxMod
    /\ UNCHANGED <<call, desc, avail, used, last_used_idx, buf, status, sector, requests,
                   timeouts, outcome>>

Complete ==
    /\ busy # Idle
    /\ \/ /\ busy.op = "write"
          /\ sector' = [sector EXCEPT ![busy.s] = buf[busy.p]]
          /\ UNCHANGED buf
       \/ /\ busy.op = "read"
          /\ buf' = [buf EXCEPT ![busy.p] = sector[busy.s]]
          /\ UNCHANGED sector
    /\ status' = [status EXCEPT ![busy.p] = 0]
    /\ used' = (used + 1) % IdxMod
    /\ busy' = Idle
    /\ UNCHANGED <<call, desc, avail, last_used_idx, taken, requests, timeouts, outcome>>

\* The loop sees used.idx advance.  `status` is an immutable local that the
\* device changes behind the compiler's back, so the value read may be the old one.
Poll ==
    /\ call # Idle /\ used # last_used_idx
    /\ last_used_idx' = used
    /\ \E st \in {status[call.p], 255} :
          outcome' = [req |-> call, how |-> IF st = 0 THEN "ok" ELSE "error"]
    /\ call' = Idle
    /\ UNCHANGED <<desc, avail, used, taken, busy, buf, status, sector, requests, timeouts>>

\* One second has passed.
Timeout ==
    /\ call # Idle /\ used = last_used_idx
    /\ outcome' = [req |-> call, how |-> "timeout"]
    /\ timeouts' = timeouts + 1
    /\ call' = Idle
    /\ UNCHANGED <<desc, avail, used, last_used_idx, taken, busy, buf, status, sector, requests>>

Next == Submit("read") \/ Submit("write") \/ Fetch \/ Complete \/ Poll \/ Timeout

Spec == Init /\ [][Next]_bvars

-----------------------------------------------------------------------------
\* Indices stay below 2^16 and every location holds a value.
TypeOK ==
    /\ {avail, used, last_used_idx, taken} \subseteq 0 .. IdxMod - 1
    /\ buf \in [Places -> Values] /\ sector \in [SectorIds -> Values]
    /\ status \in [Places -> {0, 255}]

\* A request that was submitted when nothing was on its way and returned Ok was
\* carried out: the sector holds what was to be written, or the buffer holds the
\* sector.  (A request that follows a timeout too closely can take the completion
\* of the earlier one for its own.)
OkMeansDone ==
    outcome # Idle /\ outcome.how = "ok" /\ outcome.req.quiet =>
        IF outcome.req.op = "write" THEN sector[outcome.req.s] = outcome.req.v
        ELSE buf[outcome.req.p] = sector[outcome.req.s]

\* The driver and the device stay in step until a request times out: between two
\* requests the driver has seen every completion, so that no answer is left over.
InStep == timeouts = 0 /\ call = Idle => Quiet

\* Unless a request timed out, a sector never holds what was written to another.
WrittenWhereAsked ==
    [][timeouts = 0 =>
          \A s \in SectorIds :
              sector'[s] # sector[s] =>
                  call # Idle /\ call.op = "write" /\ call.s = s /\ sector'[s] = call.v]_bvars
=============================================================================
