-------------------------------- MODULE Photos --------------------------------
(***************************************************************************)
(* POST /api/vehicles/:id/photos:presign and the upload that follows       *)
(* (handler/photo_handler.go, usecase/photo_usecase.go, pkg/cfclient/r2.go,*)
(* components/PhotoUpload.vue), for one vehicle, behind the global         *)
(* limiter.  The daily quota is a counter like the limiter's, but fails    *)
(* closed: no URL without a count that was stored.  The browser PUTs the   *)
(* file to R2 by itself.                                                   *)
(***************************************************************************)
EXTENDS GlobalLimit

CONSTANTS
    Quota,      \* DailyPhotoQuotaPerVehicle
    QuotaTTL,   \* quotaTTL
    PutTTL,     \* PresignPutTTL
    Size,       \* sizes of the photos managers pick
    MaxBytes    \* MaxPhotoBytes

\* 26 h outlive the day and the last request of the day.
ASSUME PhotosAssumption ==
    /\ Quota \in Nat \ {0}
    /\ QuotaTTL \in Nat /\ QuotaTTL >= MinutesPerDay + 1
    /\ PutTTL \in Nat
    /\ Size \subseteq Nat /\ MaxBytes \in Nat

VARIABLES
    presign,    \* presign[r]: where the tab that makes request r stands
    minted,     \* history: minted[k], the URLs handed out on the day of key k
    tried,      \* history: tried[k], the counts written or meant to be
    raced,      \* history: days on which a request read the counter before
                \* another had written it
    told,       \* history: the quota_remaining last answered, until somebody
                \* reads the counter again
    rebuffed    \* history: R2 refused a photo of a permitted size, in time

photoVars == <<presign, minted, tried, raced, told, rebuffed>>
vars == <<limitVars, photoVars>>

NotBegun == [pc |-> "none", at |-> 0, used |-> 0]

NothingTold == [day |-> -1, left |-> 0]

TypeOK ==
    /\ LimitTypeOK
    /\ presign \in [Req -> [pc   : {"none", "looked", "counted", "over", "url"},
                            at   : 0..MaxTime,
                            used : Nat]]
    /\ minted \in [Key -> Nat] /\ tried \in [Key -> Nat]
    /\ raced \in SUBSET Key
    /\ told \in [day : -1..MaxTime, left : 0..(Quota - 1)]
    /\ rebuffed \in BOOLEAN

Init ==
    /\ LimitInit
    /\ presign = [r \in Req |-> NotBegun]
    /\ minted = [k \in Key |-> 0]
    /\ tried = [k \in Key |-> 0]
    /\ raced = {}
    /\ told = NothingTold
    /\ rebuffed = FALSE

-----------------------------------------------------------------------------
QKey(r) == QuotaKey(presign[r].at)

HandOut(r) == presign' = [presign EXCEPT ![r].pc = "url", ![r].used = 0]

\* The request is answered without a URL.
GiveUp(r) ==
    /\ Leave(r)
    /\ presign' = [presign EXCEPT ![r] = NotBegun]

\* Role, body, filename and vehicle are fine; then the clock is read, once.
Look(r) ==
    /\ call[r].pc = "handler" /\ presign[r].pc = "none"
    /\ InTime(r)
    /\ presign' = [presign EXCEPT ![r] = [pc |-> "looked", at |-> now, used |-> 0]]
    /\ UNCHANGED <<limitVars, minted, tried, raced, told, rebuffed>>

\* 400, 401, 403, 404, or 500 for a lookup that failed.
LookRefused(r) ==
    /\ call[r].pc = "handler" /\ presign[r].pc = "none"
    /\ Leave(r)
    /\ UNCHANGED <<now, kv, calls, faults, let, disturbed, photoVars>>

Exhausted_OneLess(used) == used + 1 >= Quota

Exhausted(used) == used >= Quota

\* readQuotaCount: the day's uploads are used up, or not.
ReadQuota(r) ==
    /\ presign[r].pc = "looked"
    /\ InTime(r)
    /\ LET used == Count(QKey(r)) IN
          presign' = [presign EXCEPT ![r].pc = IF Exhausted(used) THEN "over" ELSE "counted",
                                     ![r].used = used]
    /\ raced' = IF \E q \in Req : presign[q].pc = "counted" /\ QKey(q) = QKey(r)
                THEN raced \cup {QKey(r)} ELSE raced
    /\ told' = NothingTold
    /\ UNCHANGED <<limitVars, minted, tried, rebuffed>>

\* 500: the read fails, or the counter does not parse, or signing fails.
ReadQuotaFails(r) ==
    /\ presign[r].pc \in {"looked", "counted"}
    /\ GiveUp(r)
    /\ Fault
    /\ UNCHANGED <<now, kv, calls, let, disturbed, minted, tried, raced, told, rebuffed>>

\* 429 quota_exceeded.
AnswerExceeded(r) ==
    /\ presign[r].pc = "over"
    /\ GiveUp(r)
    /\ UNCHANGED <<now, kv, calls, faults, let, disturbed, minted, tried, raced, told, rebuffed>>

Remaining_BeforeThisOne(used) == Quota - used

\* QuotaRemaining: what is left after this one.
Remaining(used) == Quota - (used + 1)

\* History: the answer is the truth, unless others are at it.
Tell(r) ==
    told' = IF \A q \in Req \ {r} : presign[q].pc # "counted"
            THEN [day |-> QKey(r)[2], left |-> Remaining(presign[r].used)]
            ELSE NothingTold

Tried(r) == tried' = [tried EXCEPT ![QKey(r)] = @ + 1]

\* writeQuotaCount before the URL is returned.
WriteQuota(r) ==
    /\ presign[r].pc = "counted"
    /\ InTime(r)
    /\ Put(QKey(r), presign[r].used + 1, QuotaTTL)
    /\ Leave(r)
    /\ HandOut(r)
    /\ minted' = [minted EXCEPT ![QKey(r)] = @ + 1]
    /\ Tried(r)
    /\ Tell(r)
    /\ UNCHANGED <<now, calls, faults, let, disturbed, raced, rebuffed>>

WriteQuotaFails_HandsOut(r) ==
    /\ presign[r].pc = "counted"
    /\ UNCHANGED kv \/ (InTime(r) /\ Put(QKey(r), presign[r].used + 1, QuotaTTL))
    /\ Leave(r)
    /\ HandOut(r)
    /\ minted' = [minted EXCEPT ![QKey(r)] = @ + 1]
    /\ Tried(r)
    /\ Fault
    /\ UNCHANGED <<now, calls, let, disturbed, raced, told, rebuffed>>

\* It fails, applied or not: 503 with Retry-After, and the URL is thrown away.
WriteQuotaFails(r) ==
    /\ presign[r].pc = "counted"
    /\ UNCHANGED kv \/ (InTime(r) /\ Put(QKey(r), presign[r].used + 1, QuotaTTL))
    /\ GiveUp(r)
    /\ Tried(r)
    /\ told' = NothingTold
    /\ Fault
    /\ UNCHANGED <<now, calls, let, disturbed, minted, raced, rebuffed>>

\* PresignPutObject signs Content-Length: R2 takes that length and no other.
SignedLength == MaxBytes

\* The browser PUTs the file it has checked against content_length_max.
Upload(r) ==
    /\ presign[r].pc = "url"
    /\ \E size \in Size :
          /\ size <= MaxBytes
          /\ rebuffed' = (rebuffed \/ (now <= presign[r].at + PutTTL /\ size # SignedLength))
    /\ presign' = [presign EXCEPT ![r] = NotBegun]
    /\ UNCHANGED <<limitVars, minted, tried, raced, told>>

PhotoStep(r) ==
    \/ Look(r)
    \/ LookRefused(r)
    \/ ReadQuota(r)
    \/ ReadQuotaFails(r)
    \/ AnswerExceeded(r)
    \/ WriteQuota(r)
    \/ WriteQuotaFails(r)
    \/ Upload(r)

\* The tab asks again once its upload is over.
PresignStep(r) ==
    \/ presign[r].pc = "none" /\ LimitStep(r) /\ UNCHANGED photoVars
    \/ PhotoStep(r)

\* The container stops; a URL already handed out lives on in its tab.
ContainerStop ==
    /\ LimitStop
    /\ presign' = [r \in Req |-> IF presign[r].pc = "url" THEN presign[r] ELSE NotBegun]
    /\ UNCHANGED <<minted, tried, raced, told, rebuffed>>

Next ==
    \/ \E r \in Req : PresignStep(r)
    \/ ContainerStop
    \/ LimitTick /\ UNCHANGED photoVars

Spec == Init /\ [][Next]_vars

-----------------------------------------------------------------------------
\* No more URLs a day than the quota, for all that fails or stops in between:
\* a failed write hands out nothing, an expired entry reopens nothing, a request
\* that crosses midnight counts where it checked.  Only requests that overlap
\* can get past it.
QuotaHolds ==
    \A k \in Key : k[1] = "quota" /\ k \notin raced => minted[k] <= Quota

\* "quota_exceeded" is answered only on a day on which Quota counts were written,
\* acknowledged or not: overlapping requests never eat each other's uploads.
ExceededAtQuota ==
    \A r \in Req : presign[r].pc = "over" => tried[QKey(r)] >= Quota

\* The next request of the day finds exactly the quota_remaining that the last
\* answer promised.
RemainingHonest ==
    [][\A r \in Req :
          /\ presign[r].pc = "looked" /\ presign'[r].pc \in {"counted", "over"}
          /\ told.day = QKey(r)[2]
          => presign'[r].used = Quota - told.left]_vars

\* MaxPhotoBytes' comment calls it a "content-length cap": a photo no larger is
\* accepted.  It is signed as the exact length.
PermittedPhotosUpload == ~rebuffed
=============================================================================
