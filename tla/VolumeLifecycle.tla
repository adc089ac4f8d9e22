--------------------------- MODULE VolumeLifecycle ---------------------------
(***************************************************************************)
(* What a volume promises its callers, as VolumeBase's state machine      *)
(* (specification, section 4): the states a volume goes through, and      *)
(* whether its medium is mounted (media).  Mounting may stop at once or   *)
(* pass through checking; a failed mount or unmount leaves the volume     *)
(* unmountable with the medium in whatever state the failure left it; a   *)
(* completed unmount releases the medium; only an unmounted volume is     *)
(* destroyed.  Formatting changes neither the state nor the mount.        *)
(***************************************************************************)
CONSTANT Vols

VARIABLES state, media

avars == <<state, media>>

AInit ==
    /\ state = [v \in Vols |-> "new"]
    /\ media = [v \in Vols |-> FALSE]

(* Moves volume v from one state to another, its medium mounted or not.    *)
Move(v, from, to, m) ==
    /\ state[v] \in from
    /\ state' = [state EXCEPT ![v] = to]
    /\ media' = [media EXCEPT ![v] = m]

(* The device node is created; nothing is mounted yet.                    *)
ACreate(v) == Move(v, {"new"}, "unmounted", media[v])

(* A mount call: it returns mounted, or is still checking, with the medium *)
(* mounted, or it fails.                                                   *)
AMountStart(v) ==
    \/ Move(v, {"unmounted"}, "checking", TRUE)
    \/ Move(v, {"unmounted"}, "mounted", TRUE)
    \/ \E m \in BOOLEAN : Move(v, {"unmounted"}, "unmountable", m)

(* A mount in progress returns, keeping the medium when it succeeds.       *)
AMountEnd(v) ==
    \/ Move(v, {"checking"}, "mounted", media[v])
    \/ \E m \in BOOLEAN : Move(v, {"checking"}, "unmountable", m)

(* An unmount releases the medium, or fails and leaves it as it was.        *)
AUnmount(v) ==
    \/ Move(v, {"mounted", "unmountable"}, "unmounted", FALSE)
    \/ Move(v, {"mounted", "unmountable"}, "unmountable", media[v])

(* An unmounted volume is destroyed.                                       *)
ADestroy(v) == Move(v, {"unmounted"}, "destroyed", media[v])

ANext ==
    \E v \in Vols :
        ACreate(v) \/ AMountStart(v) \/ AMountEnd(v) \/ AUnmount(v) \/ ADestroy(v)

(* The safety part of the promise.                                          *)
SafeSpec == AInit /\ [][ANext]_avars

(* A mount in progress always returns.                                      *)
Spec == SafeSpec /\ \A v \in Vols : WF_avars(AMountEnd(v))

(* A volume holds its medium only while it is in use, or unmountable.      *)
MediaOnlyInUse ==
    \A v \in Vols : media[v] => state[v] \in {"checking", "mounted", "unmountable"}

=============================================================================
