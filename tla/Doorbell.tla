------------------------------ MODULE Doorbell ------------------------------
(***************************************************************************)
(* The application (sw/zipos/doorbell.c, with dev/rtcsim.c): the tasks of  *)
(* the clock, the bell, the display and the menus, on the kernel of        *)
(* KEvents, here reduced to events, one timeout and the choice of the next *)
(* task.                                                                   *)
(*                                                                         *)
(* The kernel changes tasks only when one sleeps.  So a step is all that a *)
(* task does from one return of wait() or write() to its next call of one  *)
(* that may sleep; interrupts come between steps.                          *)
(***************************************************************************)
EXTENDS Integers, Sequences, SequencesExt, ZipSched, RtClock

CONSTANTS Scenarios,    \* what happens at most: records [keys, presses, seconds]
          KeyCodes,     \* the keys that are pressed
          TicksPerSecond, DebounceMs, PollMs, NoticeMs, SetMs,
          KeypadMask,   \* INT_KEYPAD as a number of milliseconds
          HalfHour,     \* HALF_HOUR_S
          MenuTimeout,  \* 60 seconds
          Chunks,       \* the writes that sound_data takes
          SafeChunks,   \* those of the first 1024 samples
          Ring,         \* what the display's pipe holds
          MaxLag,       \* ticks that pass before all tasks that are ready have run
          Apart         \* the button and the second never come together

RTC == 0        \* the order of the enumeration TASKNAME
BELL == 1
DISPLAY == 2
MENU == 3
Places == 6     \* hh:mm:ss
NoKey == -1

VARIABLES
    task,       \* of each task: state, waitsig, pending and what wait() returned
    current, ticks, seconds,    \* of the kernel: seconds is time()
    timer,      \* ticks until the menu's timeout is due
    rtcclock, dawn, dusk,
    bell,       \* the bell's task: where it waits, chunks written, seconds
    lamp,       \* LED 3
    lcd,        \* characters in the display's pipe
    menu,       \* the menu's task
    down,       \* the key that is down
    kpbit,      \* the keypad's bit in the interrupt controller
    budget, lag,
    hist        \* typed: the digits entered; due: what the clock should show;
                \* idle: seconds since the last key; hurried: a menu gave up too
                \* early; since: seconds since the bell was heard; dark: it has
                \* been night since then

clockVars == <<rtcclock>>
hours == <<dawn, dusk>>
keypad == <<down, kpbit>>
vars == <<task, current, ticks, seconds, timer, rtcclock, dawn, dusk, bell, lamp, lcd, menu,
          down, kpbit, budget, lag, hist>>

Night(now) == now < dawn \/ now > dusk

Init ==
    /\ task = [t \in Tasks |-> [st |-> "READY", sig |-> {}, pend |-> {}, ev |-> {}]]
    /\ current = RTC /\ ticks = 0 /\ seconds = 0 /\ timer = 0
    /\ rtcclock = 0 /\ dawn = 6 * 16^4 /\ dusk = 16^5 + 8 * 16^4
    /\ bell = [at |-> "idle", chunk |-> 0, secs |-> 0] /\ lamp = FALSE
    /\ lcd = 0
    /\ menu = [at |-> "main", page |-> "main", p |-> 0, new |-> 0, left |-> 0, belltime |-> 0,
               key |-> NoKey]
    /\ down = NoKey /\ kpbit = FALSE
    /\ budget \in Scenarios /\ lag = 0
    /\ hist = [typed |-> <<>>, due |-> 0, idle |-> 0, hurried |-> FALSE,
               since |-> HalfHour, dark |-> FALSE]

-----------------------------------------------------------------------------
(***************************************************************************)
(* The kernel                                                              *)
(***************************************************************************)
\* kpost: the events for each task, and who is woken by them.
Post(tk, events) ==
    [t \in Tasks |->
       LET pend == tk[t].pend \cup events[t]
           woken == tk[t].sig \cap pend
       IN  IF tk[t].st = "WAITING" /\ woken # {}
           THEN [st |-> "READY", sig |-> {}, pend |-> pend \ woken, ev |-> woken]
           ELSE [tk[t] EXCEPT !.pend = pend]]
ToAll(events) == [t \in Tasks |-> events]

\* wait(mask, n): at once, if such an event is pending.
WaitOn(tk, t, mask, n) ==
    LET seen == tk[t].pend \cap mask
    IN  IF seen # {} THEN [tk EXCEPT ![t].pend = @ \ seen, ![t].ev = seen]
        ELSE [tk EXCEPT ![t].st = "WAITING", ![t].ev = {},
                        ![t].sig = mask \cup (IF n > 0 THEN {"TIMEOUT"} ELSE {})]

\* clear() also arms a timeout, which it takes from its mask (KEvents): MENU's timer.
Clear(tk, t, mask) == [tk EXCEPT ![t].pend = @ \ mask]

\* Who runs after task t's call.
After(tk, t) == IF t # Idle /\ tk[t].st = "READY" THEN t
                ELSE KSchedule([u \in Tasks |-> tk[u].st], t)
Switch(t) == /\ current' = After(task', t)
             /\ lag' = IF current' = Idle THEN 0 ELSE lag

\* A step of task t that ends in wait(mask, n).
Sleeps(tk, t, mask, n) == task' = WaitOn(tk, t, mask, n) /\ Switch(t)

\* An interrupt pass.  Without one, the task that ran goes on.
Pass(events) == /\ task' = Post(task, events)
                /\ current' = IF current = Idle THEN After(task', Idle) ELSE current
                /\ lag' = IF current' = Idle THEN 0 ELSE lag

Tick ==
    /\ current = Idle \/ lag < MaxLag
    /\ LET second == ticks + 1 = TicksPerSecond
           due == timer = 1
           all == (IF second THEN {"CLOCK"} ELSE {}) \cup (IF kpbit THEN {"KEYPAD"} ELSE {})
       IN  /\ second => /\ budget.seconds > 0
                        /\ "PPS" \notin task[BELL].pend      \* a chunk is shorter than a second
                        /\ Apart => task[BELL].st = "WAITING"
           /\ ticks' = (ticks + 1) % TicksPerSecond
           /\ seconds' = IF second THEN seconds + 1 ELSE seconds
           /\ budget' = IF second THEN [budget EXCEPT !.seconds = @ - 1] ELSE budget
           /\ timer' = IF timer > 0 THEN timer - 1 ELSE 0
           /\ task' = Post(task, [t \in Tasks |-> IF t = MENU /\ due THEN all \cup {"TIMEOUT"}
                                                                   ELSE all])
           /\ current' = IF current = Idle THEN After(task', Idle) ELSE current
           /\ lag' = IF current' = Idle THEN 0 ELSE lag + 1
           /\ hist' = IF second THEN [hist EXCEPT !.due = RtcNext(@), !.idle = @ + 1,
                                                  !.since = @ + 1]
                                ELSE hist
    /\ kpbit' = (down # NoKey)
    /\ UNCHANGED <<clockVars, hours, bell, lamp, lcd, menu, down>>

\* The button is heard: KEvents has its debouncing.
Press ==
    /\ budget.presses > 0
    /\ Apart => current = Idle
    /\ budget' = [budget EXCEPT !.presses = @ - 1]
    /\ Pass(ToAll({"BUTTON"}))
    /\ UNCHANGED <<ticks, seconds, timer, clockVars, hours, bell, lamp, lcd, menu, keypad, hist>>

\* The keypad's interrupt is not enabled: its bit waits for the next tick.
KeyDown == /\ down = NoKey /\ budget.keys > 0
           /\ down' \in KeyCodes /\ kpbit' = TRUE
           /\ budget' = [budget EXCEPT !.keys = @ - 1]
           /\ UNCHANGED <<task, current, ticks, seconds, timer, clockVars, hours, bell, lamp,
                          lcd, menu, lag, hist>>
KeyUp == /\ down # NoKey
         /\ down' = NoKey
         /\ UNCHANGED <<task, current, ticks, seconds, timer, clockVars, hours, bell, lamp,
                        lcd, menu, kpbit, budget, lag, hist>>

-----------------------------------------------------------------------------
(***************************************************************************)
(* rtctask: the clock, and the event that says it has moved.               *)
(***************************************************************************)
RtcStep ==
    /\ current = RTC
    /\ LET counts == "CLOCK" \in task[RTC].ev
           posted == IF counts THEN Post(task, ToAll({"PPS"})) ELSE task
       IN  /\ rtcclock' = IF counts THEN RtcNext(rtcclock) ELSE 0
           /\ Sleeps(posted, RTC, {"CLOCK"}, -1)
           /\ hist' = [hist EXCEPT !.dark = @ /\ Night(rtcclock')]
    /\ UNCHANGED <<ticks, seconds, timer, hours, bell, lamp, lcd, menu, keypad, budget>>

(***************************************************************************)
(* display_task reads until the pipe is empty.                             *)
(***************************************************************************)
DisplayStep ==
    /\ current = DISPLAY
    /\ lcd' = 0
    /\ Sleeps(task, DISPLAY, {}, -1)
    /\ UNCHANGED <<ticks, seconds, timer, clockVars, hours, bell, lamp, menu, keypad, budget,
                   hist>>

(***************************************************************************)
(* doorbell_task                                                           *)
(***************************************************************************)
Wanted == {"BUTTON", "PPS"}
Heard(h) == [h EXCEPT !.since = 0, !.dark = Night(rtcclock)]
Lit(at) == at # "idle" /\ Night(rtcclock)       \* belllight, or off

\* Write the first samples; or wait, with the bell still to be shown or not.
StartSound(tk) == /\ bell' = [at |-> "play", chunk |-> 1, secs |-> 0]
                  /\ Sleeps(tk, BELL, {}, -1)
SilentTooLong(s) == "ring"                                      \* mutant
SilentFor(s) == IF s < HalfHour THEN "ring" ELSE "idle"
Silent(tk, s) == /\ bell' = [at |-> SilentFor(s), chunk |-> 0, secs |-> s]
                 /\ Sleeps(tk, BELL, Wanted, -1)
Announced(tk) == Post(tk, ToAll({"DOORBELL"}))

BellIdle ==
    /\ current = BELL /\ bell.at = "idle"
    /\ IF "BUTTON" \in task[BELL].ev
       THEN StartSound(Announced(task)) /\ lamp' = Lit("play") /\ hist' = Heard(hist)
       ELSE Silent(task, HalfHour) /\ lamp' = FALSE /\ UNCHANGED hist

\* A chunk has been written: a look at the events, and the next chunk.
BellPlay ==
    /\ current = BELL /\ bell.at = "play"
    /\ LET seen == task[BELL].pend \cap Wanted
           tk == Clear(task, BELL, Wanted)
           again == "BUTTON" \in seen /\ bell.chunk > SafeChunks
           second == seen = {"PPS"}
           s == IF second THEN bell.secs + 1 ELSE bell.secs
       IN  /\ IF again THEN StartSound(Announced(tk))
              ELSE IF bell.chunk < Chunks
              THEN /\ bell' = [bell EXCEPT !.chunk = @ + 1, !.secs = s]
                   /\ Sleeps(tk, BELL, {}, -1)
              ELSE Silent(tk, s)
           /\ lamp' = IF second \/ bell'.at = "idle" THEN Lit(bell'.at) ELSE lamp
           /\ hist' = IF "BUTTON" \in seen THEN Heard(hist) ELSE hist

\* The sound is over, the light still on.  Nobody is told of a button here.
BellRing ==
    /\ current = BELL /\ bell.at = "ring"
    /\ IF "BUTTON" \in task[BELL].ev
       THEN StartSound(task) /\ hist' = Heard(hist)
       ELSE Silent(task, bell.secs + 1) /\ UNCHANGED hist
    /\ lamp' = Lit(bell'.at)

BellStep == /\ BellIdle \/ BellPlay \/ BellRing
            /\ UNCHANGED <<ticks, seconds, timer, clockVars, hours, lcd, menu, keypad, budget>>

\* The speaker has taken enough of the samples.
AudioDrains ==
    /\ bell.at = "play" /\ task[BELL].st = "WAITING"
    /\ Apart => current = Idle
    /\ LET tk == [task EXCEPT ![BELL].st = "READY"]
       IN  /\ task' = tk
           /\ current' = IF current = Idle THEN After(tk, Idle) ELSE current
    /\ UNCHANGED <<ticks, seconds, timer, clockVars, hours, bell, lamp, lcd, menu, keypad,
                   budget, lag, hist>>

(***************************************************************************)
(* menu_task.  A step may write to the display, and it ends in a wait.     *)
(***************************************************************************)
\* The lengths of the messages; the sunset's text is never set, and may end
\* anywhere: at once, or as late as the others.
Lengths(text) == CASE text = "none" -> {0}
                   [] text \in {"bell", "day"} -> {33}
                   [] text = "dawn" -> {32, 33}
                   [] text = "night" -> {34}
                   [] text = "time" -> {36, 37}
                   [] text = "dusk" -> {0, 32}
                   [] text = "unknown" -> {40}

At(m, at) == [m EXCEPT !.at = at]

\* The display's task takes one character if it waits for it.  If the rest is
\* more than the ring has room for, write() goes round and round: it neither
\* copies nor sleeps (SysPipe), so that the display's task never runs again.
\* The step writes the text, waits for mask (n ticks at most), and leaves the menu m.
Does(tk0, text, mask, n, m) ==
    \E len \in Lengths(text) :
      LET waits == len > 0 /\ task[DISPLAY].st = "WAITING"
          taken == IF waits THEN 1 ELSE 0
      IN  IF len - taken > Ring - lcd
          THEN /\ menu' = At(m, "spin")
               /\ UNCHANGED <<task, current, lag, lcd>>
          ELSE /\ menu' = m
               /\ lcd' = lcd + len - taken
               /\ Sleeps(IF waits THEN [tk0 EXCEPT ![DISPLAY].st = "READY"] ELSE tk0,
                         MENU, mask, n)

InMain == {"DOORBELL", "PPS", "KEYPAD"}
InPage == {"PPS", "KEYPAD"}
ClearKey(tk) == Clear(tk, MENU, {"KEYPAD"})

\* menu_readkey begins.
Debounce(tk, text, m) == /\ Does(tk, text, {}, DebounceMs, At(m, "press"))
                         /\ timer' = DebounceMs + 1

\* Back in the loop of menu_task, which clears the keypad's event.
Closed == [at |-> "main", page |-> "main", p |-> 0, new |-> 0, left |-> 0,
           belltime |-> menu.belltime, key |-> NoKey]
Back == /\ menu' = Closed /\ lcd' = lcd
        /\ timer' = KeypadMask + 1
        /\ Sleeps(ClearKey(task), MENU, InMain, -1)

MenuMain ==
    /\ menu.at = "main"
    /\ LET ev == task[MENU].ev
           rung == "DOORBELL" \in ev
           recent == seconds - menu.belltime < HalfHour
           text == IF rung \/ ("PPS" \in ev /\ recent) THEN "bell"
                   ELSE IF "PPS" \notin ev THEN "none"
                   ELSE IF Night(rtcclock) THEN "night" ELSE "day"
           m == [menu EXCEPT !.belltime = IF rung THEN seconds ELSE @]
       IN  IF "KEYPAD" \in ev THEN Debounce(task, text, m)
                              ELSE Does(task, text, InMain, -1, m) /\ UNCHANGED timer
    /\ UNCHANGED <<clockVars, hours, keypad, hist>>

\* A key starts the minute again, but not in the sunset's menu.
KeyNeverRestarts(page) == FALSE                                 \* mutant
KeyRestarts(page) == page # "dusk"
MenuPage ==
    /\ menu.at = "page"
    /\ LET ev == task[MENU].ev
           left == IF "PPS" \in ev THEN menu.left - 1 ELSE menu.left
           m == [menu EXCEPT !.left = IF "KEYPAD" \in ev /\ KeyRestarts(menu.page)
                                      THEN MenuTimeout ELSE left]
       IN  IF "PPS" \in ev /\ left = 0
           THEN /\ Back
                /\ hist' = [hist EXCEPT !.hurried =
                              @ \/ (menu.page # "dusk" /\ hist.idle < MenuTimeout - 1)]
           ELSE /\ UNCHANGED hist
                /\ IF "KEYPAD" \in ev THEN Debounce(task, "none", m)
                                      ELSE /\ Does(task, "none", InPage, -1, m)
                                           /\ UNCHANGED timer
    /\ UNCHANGED <<clockVars, hours, keypad>>

\* A key has been read and let go: clear the event, and take the key.
DigitLow(n, p, k) == n + (k - Nibble(n, p)) * 16^p             \* mutant
Digit(n, p, k) == n + (k - Nibble(n, Places - 1 - p)) * 16^(Places - 1 - p)
PageOf(k) == CASE k = 10 -> "time" [] k = 11 -> "dawn" [] k = 12 -> "dusk"

Open(page) == /\ Does(ClearKey(task), page, InPage, -1,
                      [menu EXCEPT !.at = "page", !.page = page, !.left = MenuTimeout])
              /\ timer' = KeypadMask + 1
              /\ UNCHANGED <<clockVars, hours>>
Unknown == /\ Does(ClearKey(task), "unknown", {}, NoticeMs, At(menu, "notice"))
           /\ timer' = NoticeMs + 1
           /\ UNCHANGED <<clockVars, hours>>

\* The next place to be entered: p, with what has been entered.
Ask(p, n) == /\ Does(ClearKey(task), menu.page, InPage, -1,
                     [menu EXCEPT !.at = "page", !.p = p, !.new = n, !.key = NoKey])
             /\ timer' = KeypadMask + 1
             /\ UNCHANGED <<clockVars, hours>>

\* The clock is set once here and, for rtctask may be at it, again after a wait.
SetClock(n) == /\ rtcclock' = n /\ UNCHANGED <<hours, lcd>>
               /\ menu' = [menu EXCEPT !.at = "set", !.new = n]
               /\ timer' = SetMs + 1
               /\ Sleeps(Clear(task, MENU, InPage), MENU, {"PPS"}, SetMs)
SetHour(n) == /\ dawn' = IF menu.page = "dawn" THEN n ELSE dawn
              /\ dusk' = IF menu.page = "dusk" THEN n ELSE dusk
              /\ UNCHANGED clockVars /\ Back
Finish(n) == IF menu.page = "time" THEN SetClock(n) ELSE SetHour(n)

TakeKey(k) ==
    LET n == Digit(menu.new, menu.p, k)
        last == menu.p = Places - 1
        digit == k \in 0 .. 9
    IN  /\ CASE menu.page = "main" /\ k \in 10 .. 12 -> Open(PageOf(k))
             [] menu.page = "main" /\ k \notin 10 .. 12 -> Unknown
             [] menu.page # "main" /\ digit -> IF last THEN Finish(n) ELSE Ask(menu.p + 1, n)
             [] menu.page # "main" /\ k = 12 -> Ask(menu.p, menu.new)
             [] menu.page # "main" /\ ~digit /\ k # 12 ->
                  IF last THEN Finish(menu.new) ELSE Back /\ UNCHANGED <<clockVars, hours>>
        /\ hist' = [hist EXCEPT !.idle = 0,
                      !.typed = IF menu'.page # "time" THEN <<>>
                                ELSE IF menu.page = "time" /\ digit THEN Append(@, k) ELSE @,
                      !.dark = @ /\ (Night(rtcclock) => Night(rtcclock)')]

\* menu_readkey looks at the keypad, and clears the interrupt's bit, which a
\* key that is down sets again at once.  It may come up while it is looked at,
\* or right after.
MenuReadKey ==
    /\ menu.at = "press"
    /\ \E up \in {"before", "after", "later"} :
         LET key == IF up = "before" THEN NoKey ELSE down
         IN  /\ down = NoKey => up = "later"
             /\ down' = IF up = "later" THEN down ELSE NoKey
             /\ kpbit' = (up = "after" \/ down' # NoKey)
             /\ IF down' = NoKey THEN TakeKey(key)
                ELSE /\ Does(task, "none", {}, PollMs, [menu EXCEPT !.at = "release", !.key = key])
                     /\ timer' = PollMs + 1
                     /\ UNCHANGED <<clockVars, hours, hist>>

MenuRelease ==
    /\ menu.at = "release"
    /\ IF down = NoKey THEN TakeKey(menu.key)
       ELSE /\ Does(task, "none", {}, PollMs, menu)
            /\ timer' = PollMs + 1
            /\ UNCHANGED <<clockVars, hours, hist>>
    /\ UNCHANGED keypad

\* wait(SWINT_PPS, 1) also returns the timeout, which is not 0.
SetAgain(ev) == ev # {}
Zeroes(n) == [i \in 1 .. n |-> 0]
Entered == OfDigits(hist.typed \o Zeroes(Places - Len(hist.typed)))
MenuSet ==
    /\ menu.at = "set"
    /\ rtcclock' = IF SetAgain(task[MENU].ev) THEN menu.new ELSE rtcclock
    /\ Back
    /\ hist' = [hist EXCEPT !.typed = <<>>, !.due = Entered,
                            !.dark = @ /\ (Night(rtcclock) => Night(rtcclock)')]
    /\ UNCHANGED <<hours, keypad>>

MenuNotice == /\ menu.at = "notice" /\ Back
              /\ UNCHANGED <<clockVars, hours, keypad, hist>>

MenuStep == /\ current = MENU
            /\ MenuMain \/ MenuPage \/ MenuReadKey \/ MenuRelease \/ MenuSet \/ MenuNotice
            /\ UNCHANGED <<ticks, seconds, bell, lamp, budget>>

Next == RtcStep \/ BellStep \/ DisplayStep \/ MenuStep
        \/ Tick \/ Press \/ KeyDown \/ KeyUp \/ AudioDrains

Spec == Init /\ [][Next]_vars

-----------------------------------------------------------------------------
(***************************************************************************)
(* Properties                                                              *)
(***************************************************************************)
Settled == current = Idle

\* No second is lost or counted twice, and the time that was entered is the one
\* the clock goes on from, though rtctask and time_menu write it without a
\* semaphore (doorbell.c:522): a second that ended before it was set may count.
TimeIsRight ==
    Settled /\ menu.at # "set" => rtcclock \in {hist.due, RtcNext(hist.due)}

\* The light goes off HALF_HOUR_S after the button was last heard (doorbell.c:355), a
\* second early or late, and until then it is on if it was night all the time.
LampIsDue ==
    Settled /\ task[BELL].pend \cap Wanted = {} =>
       /\ lamp => hist.since <= HalfHour + 1
       /\ hist.dark /\ hist.since < HalfHour - 1 => lamp

\* A menu that is left alone closes, and no earlier than it should: the sunset's
\* counts from when it was opened (doorbell.c:595).
MenusClose ==
    /\ Settled /\ menu.at = "page" => hist.idle <= MenuTimeout + 1
    /\ ~hist.hurried

\* A task that cannot write does not keep the others from running: it is to block
\* (syspipe.c:322).
WritersBlock == menu.at # "spin"
=============================================================================
