------------------------------- MODULE Upgrade -------------------------------
(***************************************************************************)
(* An upgrade from the web UI (handle_run_update in                        *)
(* src/hushclaw/server/update_handler.py, launch_delegate in               *)
(* src/hushclaw/update/executor.py).                                       *)
(*                                                                         *)
(* Each client's message is handled in a coroutine of its own.  The check  *)
(* that no upgrade is under way and no session runs is made under a lock;  *)
(* from there on the flag in_progress stands for the upgrade.  The handler *)
(* announces the shutdown, starts a detached installer (the delegate),     *)
(* reports to its client and has the process exit a second later.  Every   *)
(* send to the client raises once the client is gone, and no send is in a  *)
(* try.                                                                    *)
(***************************************************************************)
EXTENDS Integers, FiniteSets

CONSTANTS
    Admins,       \* the clients that ask for upgrades
    Sessions,     \* the sessions
    MaxUpgrades   \* bound: requests of one client

ASSUME UpgradeBoundsAssumption == MaxUpgrades \in Nat
ASSUME IdleIsNoStage == "nobody" \notin Admins

VARIABLES
    step,         \* step[c]: where the handler of c's request is
    forced,       \* forced[c]: it asked to go on whatever runs
    online,       \* the clients whose socket is open
    asked,        \* asked[c]: c's requests so far
    lockedBy,     \* the client whose handler holds upgrade_lock, or "nobody"
    inProgress,   \* upgrade_state["in_progress"]
    busy,         \* _running_sessions
    delegates,    \* installers started
    leaving,      \* os._exit is due
    up            \* the process lives

upgradeVars == <<step, forced, online, asked, lockedBy, inProgress, busy, delegates,
                 leaving, up>>

-----------------------------------------------------------------------------

UpgradeInit ==
    /\ step = [c \in Admins |-> "idle"]
    /\ forced = [c \in Admins |-> FALSE]
    /\ online = Admins
    /\ asked = [c \in Admins |-> 0]
    /\ lockedBy = "nobody"
    /\ inProgress = FALSE
    /\ busy = {}
    /\ delegates = 0
    /\ leaving = FALSE
    /\ up = TRUE

At(c, s) == up /\ step[c] = s
Goes(c, s) == step' = [step EXCEPT ![c] = s]

\* A send to the client of the handler: it goes on, or the handler is over.
SendThen(c, s) == Goes(c, IF c \in online THEN s ELSE "idle")

-----------------------------------------------------------------------------
(***************************************************************************)
(* Clients and sessions.                                                   *)
(***************************************************************************)

AskForUpgrade(c, force) ==
    /\ At(c, "idle") /\ c \in online
    /\ asked[c] < MaxUpgrades
    /\ asked' = [asked EXCEPT ![c] = @ + 1]
    /\ forced' = [forced EXCEPT ![c] = force]
    /\ Goes(c, "lock")
    /\ UNCHANGED <<online, lockedBy, inProgress, busy, delegates, leaving, up>>

HangUp(c) ==
    /\ up /\ c \in online
    /\ online' = online \ {c}
    /\ UNCHANGED <<step, forced, asked, lockedBy, inProgress, busy, delegates, leaving,
                   up>>

\* Sessions start and end whether or not an upgrade is under way.
SessionRuns(s) ==
    /\ up /\ s \notin busy
    /\ busy' = busy \cup {s}
    /\ UNCHANGED <<step, forced, online, asked, lockedBy, inProgress, delegates, leaving,
                   up>>

SessionIdles(s) ==
    /\ up /\ s \in busy
    /\ busy' = busy \ {s}
    /\ UNCHANGED <<step, forced, online, asked, lockedBy, inProgress, delegates, leaving,
                   up>>

-----------------------------------------------------------------------------
(***************************************************************************)
(* handle_run_update.                                                      *)
(***************************************************************************)

\* Variant: who forces the upgrade is let through in any case.
BlockedUnlessForced(c) == ~forced[c] /\ (inProgress \/ busy # {})

Blocked(c) == inProgress \/ (busy # {} /\ ~forced[c])

\* The check; the flag is set before the lock is released.
Admit(c) ==
    /\ At(c, "lock") /\ lockedBy = "nobody"
    /\ ~Blocked(c)
    /\ inProgress' = TRUE
    /\ Goes(c, "announce")
    /\ UNCHANGED <<forced, online, asked, lockedBy, busy, delegates, leaving, up>>

\* The refusal is sent with the lock held.
Refuse(c) ==
    /\ At(c, "lock") /\ lockedBy = "nobody"
    /\ Blocked(c)
    /\ lockedBy' = c
    /\ Goes(c, "refuse")
    /\ UNCHANGED <<forced, online, asked, inProgress, busy, delegates, leaving, up>>

Refused(c) ==
    /\ At(c, "refuse")
    /\ lockedBy' = "nobody"
    /\ Goes(c, "idle")
    /\ UNCHANGED <<forced, online, asked, inProgress, busy, delegates, leaving, up>>

\* server_shutdown to every client (the errors of these sends are caught), then
\* the first progress message, then launch_delegate's.  When that raises,
\* launch_delegate's except sends again, and raises.
Announce(c) ==
    /\ \/ At(c, "announce") /\ SendThen(c, "prepare")
       \/ At(c, "prepare") /\ SendThen(c, "launch")
    /\ UNCHANGED <<forced, online, asked, lockedBy, inProgress, busy, delegates, leaving,
                   up>>

\* The detached installer is started; or that fails.
Launch(c) ==
    /\ At(c, "launch")
    /\ delegates' = delegates + 1
    /\ Goes(c, "launched")
    /\ UNCHANGED <<forced, online, asked, lockedBy, inProgress, busy, leaving, up>>

LaunchFails(c) ==
    /\ At(c, "launch")
    /\ SendThen(c, "failed")
    /\ UNCHANGED <<forced, online, asked, lockedBy, inProgress, busy, delegates, leaving,
                   up>>

\* launch_delegate's last progress message, then the result.
Report(c) ==
    /\ \/ At(c, "launched") /\ SendThen(c, "report")
       \/ At(c, "report") /\ SendThen(c, "exit")
       \/ At(c, "failed") /\ SendThen(c, "clear")
    /\ UNCHANGED <<forced, online, asked, lockedBy, inProgress, busy, delegates, leaving,
                   up>>

\* call_later(1.0, os._exit).
ExitSoon(c) ==
    /\ At(c, "exit")
    /\ leaving' = TRUE
    /\ Goes(c, "idle")
    /\ UNCHANGED <<forced, online, asked, lockedBy, inProgress, busy, delegates, up>>

\* The launch has failed: another upgrade may be asked for.
ClearFlag(c) ==
    /\ At(c, "clear")
    /\ inProgress' = FALSE
    /\ Goes(c, "idle")
    /\ UNCHANGED <<forced, online, asked, lockedBy, busy, delegates, leaving, up>>

Exit ==
    /\ up /\ leaving
    /\ up' = FALSE
    /\ UNCHANGED <<step, forced, online, asked, lockedBy, inProgress, busy, delegates,
                   leaving>>

-----------------------------------------------------------------------------

Handler(c) ==
    \/ Admit(c) \/ Refuse(c) \/ Refused(c) \/ Announce(c) \/ Launch(c)
    \/ LaunchFails(c) \/ Report(c) \/ ExitSoon(c) \/ ClearFlag(c)

UpgradeNext ==
    \/ \E c \in Admins :
          \/ \E force \in BOOLEAN : AskForUpgrade(c, force)
          \/ HangUp(c) \/ Handler(c)
    \/ \E s \in Sessions : SessionRuns(s) \/ SessionIdles(s)
    \/ Exit

UpgradeSpec == UpgradeInit /\ [][UpgradeNext]_upgradeVars

-----------------------------------------------------------------------------
(***************************************************************************)
(* Properties.                                                             *)
(***************************************************************************)

\* The type invariant.
UpgradeTypeOK ==
    /\ step \in [Admins -> {"idle", "lock", "refuse", "announce", "prepare", "launch",
                            "launched", "report", "exit", "failed", "clear"}]
    /\ forced \in [Admins -> BOOLEAN]
    /\ online \subseteq Admins
    /\ asked \in [Admins -> 0 .. MaxUpgrades]
    /\ lockedBy \in Admins \cup {"nobody"}
    /\ inProgress \in BOOLEAN
    /\ busy \subseteq Sessions
    /\ delegates \in Nat
    /\ leaving \in BOOLEAN /\ up \in BOOLEAN

\* Two installers never run on one installation, however many clients ask and
\* wherever their sockets close: a second could rewrite the code under the first.
\* And no later upgrade is refused for nothing: when the flag is set, an upgrade
\* is being made, the exit is due, or the client who asked is gone.  (Then the
\* flag stays until the server is restarted, and if the installer had been
\* started, no exit follows, although launch_delegate says its caller must.)
OneUpgrade ==
    /\ delegates <= 1
    /\ inProgress => \/ leaving
                     \/ \E c \in Admins : step[c] \notin {"idle", "lock", "refuse"}
                     \/ online # Admins

=============================================================================
