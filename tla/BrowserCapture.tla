----------------------------- MODULE BrowserCapture -----------------------------
(***************************************************************************)
(* ui/capture.py and tools/ui_suite.py: screenshot, perf, interact and     *)
(* trace.  Each drives a headless browser of its own behind one semaphore; *)
(* any await may fail or be cancelled.                                     *)
(***************************************************************************)
EXTENDS Naturals, FiniteSets

CONSTANT CaptureCalls

VARIABLES
  capture,   \* per call: where it is and which tool it is
  semaphore, \* calls that hold a place
  browsers,  \* calls whose browser is alive
  temps      \* calls whose temporary trace file is on disk

captureVars == <<capture, semaphore, browsers, temps>>

CaptureTools == {"screenshot", "perf", "interact", "trace"}

At(c, pc) == capture[c].pc = pc

Goes(c, pc) == capture' = [capture EXCEPT ![c].pc = pc]

(* A trace is recorded into a temporary file, made before the wait.        *)
CallCapture(c) ==
  /\ At(c, "idle")
  /\ \E tool \in CaptureTools :
       /\ capture' = [capture EXCEPT ![c] = [pc |-> "waits", tool |-> tool]]
       /\ temps' = IF tool = "trace" THEN temps \cup {c} ELSE temps
  /\ UNCHANGED <<semaphore, browsers>>

EnterSemaphore(c) ==
  /\ At(c, "waits")
  /\ semaphore = {}
  /\ semaphore' = {c}
  /\ Goes(c, "playwright")
  /\ UNCHANGED <<browsers, temps>>

Launch(c) ==
  /\ At(c, "playwright")
  /\ browsers' = browsers \cup {c}
  /\ Goes(c, "opening")
  /\ UNCHANGED <<semaphore, temps>>

(* The page is open, or for a trace the recording runs: from here the      *)
(* browser is closed in a finally block.                                   *)
Opened(c) ==
  /\ At(c, "opening")
  /\ Goes(c, "works")
  /\ UNCHANGED <<semaphore, browsers, temps>>

Works(c) ==
  /\ At(c, "works")
  /\ Goes(c, "closing")
  /\ UNCHANGED <<semaphore, browsers, temps>>

CloseBrowser(c) ==
  /\ At(c, "closing")
  /\ browsers' = browsers \ {c}
  /\ Goes(c, "stopping")
  /\ UNCHANGED <<semaphore, temps>>

(* An exception or a cancellation at an await: before the try block it     *)
(* leaves at once, inside it the finally block runs, and one in the        *)
(* finally block (tracing.stop, context.close) skips browser.close.        *)
Raises(c) ==
  /\ \/ At(c, "playwright") \/ At(c, "opening") \/ At(c, "works") \/ At(c, "closing")
  /\ Goes(c, CASE At(c, "playwright") -> "released"
               [] At(c, "works")      -> "closing"
               [] OTHER               -> "stopping")
  /\ semaphore' = IF At(c, "playwright") THEN semaphore \ {c} ELSE semaphore
  /\ UNCHANGED <<browsers, temps>>

StopsWaiting(c) ==
  /\ At(c, "waits")
  /\ Goes(c, "released")
  /\ UNCHANGED <<semaphore, browsers, temps>>

(* Variant: async with async_playwright() as p, _CAPTURE_SEMAPHORE.        *)
SemaphoreFirst(c) ==
  \/ /\ At(c, "stopping") /\ c \in semaphore
     /\ semaphore' = semaphore \ {c}
     /\ UNCHANGED <<capture, browsers, temps>>
  \/ /\ At(c, "stopping") /\ c \notin semaphore
     /\ browsers' = browsers \ {c}
     /\ Goes(c, "released")
     /\ UNCHANGED <<semaphore, temps>>

(* Leaving the with block stops playwright, and with it a browser nobody   *)
(* closed, and then gives the place back.                                  *)
LeaveWith(c) ==
  \/ /\ At(c, "stopping") /\ c \in semaphore
     /\ browsers' = browsers \ {c}
     /\ Goes(c, "stopped")
     /\ UNCHANGED <<semaphore, temps>>
  \/ /\ At(c, "stopped")
     /\ semaphore' = semaphore \ {c}
     /\ Goes(c, "released")
     /\ UNCHANGED <<browsers, temps>>

(* finally: the file is removed whether it was read or not.                *)
TempsAfter(c) == temps \ {c}

CaptureEnds(c) ==
  /\ At(c, "released")
  /\ temps' = TempsAfter(c)
  /\ Goes(c, "over")
  /\ UNCHANGED <<semaphore, browsers>>

CaptureNext ==
  \E c \in CaptureCalls :
    \/ CallCapture(c) \/ EnterSemaphore(c) \/ Launch(c) \/ Opened(c) \/ Works(c) \/ CloseBrowser(c)
    \/ Raises(c) \/ StopsWaiting(c) \/ LeaveWith(c) \/ CaptureEnds(c)

CaptureInit ==
  /\ capture = [c \in CaptureCalls |-> [pc |-> "idle", tool |-> "none"]]
  /\ semaphore = {} /\ browsers = {} /\ temps = {}

CaptureSpec == CaptureInit /\ [][CaptureNext]_captureVars

-----------------------------------------------------------------------------
(* However captures fail or are cancelled, at most one browser is alive at *)
(* a time (ui/capture.py:30-34), and a call that is over has left no       *)
(* browser, no temporary file and no turn taken behind.                    *)
OneBrowserAtATime ==
  /\ Cardinality(browsers) <= 1
  /\ \A c \in CaptureCalls : At(c, "over") => c \notin browsers \cup temps \cup semaphore
=============================================================================
