------------------------------ MODULE SlotGrid ------------------------------
(***************************************************************************)
(* The picker of the client's Mini App (internal/domain/consultations,     *)
(* schedule.go): the hours a client may choose, laid out on the firm's own *)
(* wall clock, which changes its offset from UTC once in the modelled      *)
(* days.  Instants are hours UTC; day d of the firm starts at its local    *)
(* midnight.  The loop of FreeSlots is compared with what it is for: every *)
(* instant of the window that reads as an opening hour on the firm's wall. *)
(***************************************************************************)
EXTENDS Integers

CONSTANTS
    LastDay,     \* days 0..LastDay of the firm's calendar (bound)
    ClosedDays,  \* the days that are no weekday of the schedule
    Zones,       \* the wall clocks: offset from UTC before and after the change
    ChangeDay,   \* the day at whose third hour (before the change) it happens
    Open, Close, \* opening hours, Close bounds the end of the last slot
    Slot,        \* length of a slot
    LeadTime,    \* the notice a client has to give
    Horizon,     \* how far ahead slots are offered
    LastNow      \* bound on the clock

ASSUME ScheduleAssumption ==
    /\ LastDay \in Nat /\ ChangeDay \in 0..LastDay /\ LastNow \in Nat
    /\ Open \in 4..23 /\ Close \in 4..24 /\ Slot \in Nat \ {0}
    /\ LeadTime \in Nat /\ Horizon \in Nat
    /\ Zones \subseteq (0..3) \X (0..3)

\* A wall clock goes forward or back by an hour: the hours it leaves out or shows
\* twice are before the office opens.
ASSUME ChangeAssumption == \A z \in Zones : z[1] - z[2] \in (-1)..1

\* The modelled days reach to the horizon.
ASSUME DaysAssumption == Horizon < 24 * LastDay

VARIABLES
    zone,  \* the wall clock of the firm
    now,
    held   \* the hours taken

pickerVars == <<zone, now, held>>

-----------------------------------------------------------------------------
(* The wall clock.                                                         *)

\* Mutant: the hours are added to the day's midnight.
DateFromMidnight(d, h) == 24 * d + h - IF d <= ChangeDay THEN zone[1] ELSE zone[2]

\* time.Date(day, hour, location): the instant of a wall-clock reading.
Date(d, h) ==
    24 * d + h - IF d < ChangeDay \/ (d = ChangeDay /\ h < 3) THEN zone[1] ELSE zone[2]

\* t.In(location): the wall-clock reading of an instant.
In(t) == t + IF t < 24 * ChangeDay + 3 - zone[1] THEN zone[1] ELSE zone[2]
LocalDay(t)  == In(t) \div 24
LocalHour(t) == In(t) % 24

-----------------------------------------------------------------------------
(* The loop of FreeSlots.                                                  *)

\* Mutant: the next day is 24 hours after the last one's midnight.
DayAfterHours(first, n) == LocalDay(Date(first, 0) + 24 * n)

\* day.AddDate(0, 0, 1), n times from the first day.
DayAfter(first, n) == first + n

Offsets == {Open + k * Slot : k \in 0..24}

EndsInHours(h) == h + Slot <= Close

\* The readings the loop builds, as <<round, hour>> in the order it does.
Rounds(first, latest) ==
    {p \in (0..LastDay) \X Offsets :
        /\ \A m \in 0..p[1] : Date(DayAfter(first, m), 0) <= latest
        /\ DayAfter(first, p[1]) \notin ClosedDays
        /\ EndsInHours(p[2])}

Before(p, q) == p[1] < q[1] \/ (p[1] = q[1] /\ p[2] <= q[2])

\* The instant the loop builds at time t in round p.
Start(t, p) == Date(DayAfter(LocalDay(t), p[1]), p[2])

\* The readings the loop appends at time t: between the notice and the horizon,
\* not taken; the first start after the horizon ends the loop.
Listed(t, taken) ==
    LET built == {p \in Rounds(LocalDay(t), t + Horizon) : Start(t, p) >= t + LeadTime}
    IN {p \in built :
            /\ \A o \in built : Before(o, p) => Start(t, o) <= t + Horizon
            /\ Start(t, p) \notin taken}

FreeSlots(t, taken) == {Start(t, p) : p \in Listed(t, taken)}

\* What the query reads for the picker: the window is half open.
HeldSlots(t) == {s \in held : s >= t /\ s < t + Horizon}

\* Offers: the client's instant must be one that would be handed out now.
Offered(t) == FreeSlots(t, HeldSlots(t))

-----------------------------------------------------------------------------
PickerInit == zone \in Zones /\ now = 0 /\ held = {}

\* A client holds an hour on offer.
Hold(s) ==
    /\ s \in Offered(now)
    /\ held' = held \cup {s}
    /\ UNCHANGED <<zone, now>>

\* A consultation is over or called off.
Release(s) ==
    /\ s \in held
    /\ held' = held \ {s}
    /\ UNCHANGED <<zone, now>>

Tick ==
    /\ now < LastNow
    /\ now' = now + 1
    /\ UNCHANGED <<zone, held>>

PickerNext ==
    \/ \E s \in Offered(now) : Hold(s)
    \/ \E s \in held : Release(s)
    \/ Tick

PickerSpec == PickerInit /\ [][PickerNext]_pickerVars

-----------------------------------------------------------------------------
\* The hours between the notice and the horizon that a clock on the firm's wall
\* shows as the start of a slot of an open day.
GridHours(t) ==
    {s \in (t + LeadTime)..(t + Horizon) :
        /\ LocalDay(s) \notin ClosedDays
        /\ LocalHour(s) \in Offsets
        /\ LocalHour(s) >= Open /\ LocalHour(s) + Slot <= Close}

OffersFreeHours ==
    LET free == Offered(now) IN
    /\ free \ {now + Horizon} = GridHours(now) \ (held \cup {now + Horizon})
    /\ free \subseteq GridHours(now)

InOrder ==
    LET list == Listed(now, HeldSlots(now)) IN
    \A p, q \in list : Before(p, q) /\ p # q => Start(now, p) < Start(now, q)

\* The picker offers exactly the grid's hours that nobody holds, in order and each
\* once, across a change of the clock and at both ends of the window; only at the
\* instant that is the horizon itself a held hour is still shown, for the query
\* leaves it out (FreeSlots, HeldSlots).
PickerExact == OffersFreeHours /\ InOrder
=============================================================================
