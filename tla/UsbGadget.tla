----------------------------- MODULE UsbGadget -----------------------------
(***************************************************************************)
(* The USB gadget HAL (src/usb/gadget).  The binder thread of the service  *)
(* replaces the functions of the gadget: it pulls the gadget down, unlinks *)
(* the functions, stops the monitor, links the new functions and either    *)
(* pulls the gadget up or starts the monitor for the functions that a      *)
(* process of user space implements (FunctionFS).  The monitor thread      *)
(* pulls the gadget up once the endpoint files of those functions are      *)
(* there, and again when their owner restarts.                             *)
(*                                                                         *)
(* Functions are numbers in the order setupFunctions links them, the       *)
(* endpoint files of a function are there or not as one, and the inotify   *)
(* queue is empty or not.  The configfs gadget of the kernel is external:  *)
(* it refuses to be pulled up twice, without functions, or with a function *)
(* whose endpoints are missing; unlinking a function and the end of an     *)
(* owner pull it down.                                                     *)
(***************************************************************************)
EXTENDS Integers

CONSTANTS
  NumFunctions,
  Ffs,             \* the functions with endpoint files (MTP, PTP, ADB)
  Requests,        \* the sets of functions callers ask for; {} is NONE
  Supported,       \* those validateAndSetVidPid knows
  MaxGadgetCalls, MaxOwnerSteps, MaxGadgetFaults

Functions == 1 .. NumFunctions

ASSUME GadgetAssumption ==
  /\ NumFunctions \in Nat
  /\ Ffs \subseteq Functions
  /\ Requests \subseteq SUBSET Functions
  /\ MaxGadgetCalls \in Nat /\ MaxOwnerSteps \in Nat /\ MaxGadgetFaults \in Nat

VARIABLES
  linked, up,               \* the kernel: the configuration, and whether it is pulled up
  owners,                   \* user space: the functions whose endpoint files are there
  watched, event,           \* inotify: the watches, and whether a message is unread
  stop,                     \* mEventFd holds the request to stop
  mCurrentUsbFunctions, mCurrentUsbFunctionsApplied,
  pc, todo, callback,       \* the binder thread, what it has to link, its caller's callback
  mEndpointList, gadgetPullup, ffsCallback, mMonitorRunning,   \* MonitorFfs (its mCallback)
  monitor, writeUdc,        \* the monitor thread
  answer,                   \* history: the answer to the last request
  reached,                  \* history: its functions were pulled up since it was made
  failed,                   \* history: it was not set up
  leftover,                 \* history: mEndpointList has endpoints of a failed request
  denied,                   \* history: a fault refused a pull-up, no message was read since
  gadgetCalls, ownerSteps, gadgetFaults

configfs == <<linked, up>>
inotify == <<watched, event>>
request == <<mCurrentUsbFunctions, pc, todo, callback>>
monitorFfs == <<mEndpointList, gadgetPullup, ffsCallback, mMonitorRunning>>
thread == <<monitor, writeUdc>>
history == <<answer, reached, failed, leftover, denied>>
gadgetBounds == <<gadgetCalls, ownerSteps, gadgetFaults>>
gadgetVars == <<configfs, owners, inotify, stop, mCurrentUsbFunctionsApplied, request,
                monitorFfs, thread, history, gadgetBounds>>

\* The type of every variable; only functions with endpoint files are watched.
GadgetTypeOK ==
  /\ linked \subseteq Functions /\ up \in BOOLEAN
  /\ owners \subseteq Ffs /\ watched \subseteq Ffs /\ event \in BOOLEAN /\ stop \in BOOLEAN
  /\ mCurrentUsbFunctions \in Requests \cup {{}}
  /\ mCurrentUsbFunctionsApplied \in BOOLEAN
  /\ pc \in {"idle", "down", "unlink", "stop", "join", "setup", "link", "wait", "error", "reset"}
  /\ todo \subseteq Functions /\ callback \in BOOLEAN
  /\ mEndpointList \subseteq Ffs
  /\ gadgetPullup \in BOOLEAN /\ ffsCallback \in BOOLEAN /\ mMonitorRunning \in BOOLEAN
  /\ monitor \in {"off", "check", "pull", "applied", "loop", "exited"} /\ writeUdc \in BOOLEAN
  /\ answer \in {"nothing", "success", "error"}
  /\ reached \in BOOLEAN /\ failed \in BOOLEAN /\ leftover \in BOOLEAN
  /\ denied \in BOOLEAN
  /\ gadgetCalls \in 0 .. MaxGadgetCalls /\ ownerSteps \in 0 .. MaxOwnerSteps
  /\ gadgetFaults \in 0 .. MaxGadgetFaults

GadgetInit ==
  /\ linked = {} /\ up = FALSE
  /\ owners = {} /\ watched = {} /\ event = FALSE /\ stop = FALSE
  /\ mCurrentUsbFunctions = {} /\ mCurrentUsbFunctionsApplied = FALSE
  /\ pc = "idle" /\ todo = {} /\ callback = TRUE
  /\ mEndpointList = {} /\ gadgetPullup = FALSE /\ ffsCallback = FALSE /\ mMonitorRunning = FALSE
  /\ monitor = "off" /\ writeUdc = TRUE
  /\ answer = "nothing" /\ reached = FALSE /\ failed = FALSE /\ leftover = FALSE
  /\ denied = FALSE
  /\ gadgetCalls = 0 /\ ownerSteps = 0 /\ gadgetFaults = 0

-----------------------------------------------------------------------------
(***************************************************************************)
(* The kernel and the owners of the endpoints                              *)
(***************************************************************************)
PullUpWorks == ~up /\ linked # {} /\ linked \cap Ffs \subseteq owners

PullUp ==
  /\ up' = TRUE
  /\ reached' = (reached \/ linked = mCurrentUsbFunctions)

OwnerStep == ownerSteps < MaxOwnerSteps /\ ownerSteps' = ownerSteps + 1

Notify(f) == event' = (event \/ f \in watched)

OwnerStarts(f) ==
  /\ OwnerStep
  /\ f \notin owners
  /\ owners' = owners \cup {f}
  /\ Notify(f)
  /\ UNCHANGED <<configfs, watched, stop, mCurrentUsbFunctionsApplied, request, monitorFfs, thread,
                 history, gadgetCalls, gadgetFaults>>

OwnerDies(f) ==
  /\ OwnerStep
  /\ f \in owners
  /\ owners' = owners \ {f}
  /\ up' = (up /\ f \notin linked)
  /\ Notify(f)
  /\ UNCHANGED <<linked, watched, stop, mCurrentUsbFunctionsApplied, request, monitorFfs, thread,
                 history, gadgetCalls, gadgetFaults>>

-----------------------------------------------------------------------------
(***************************************************************************)
(* setCurrentUsbFunctions and reset.  Any write to configfs may fail.      *)
(***************************************************************************)
Call == gadgetCalls < MaxGadgetCalls /\ gadgetCalls' = gadgetCalls + 1

Fault == gadgetFaults < MaxGadgetFaults /\ gadgetFaults' = gadgetFaults + 1

\* The kernel refuses a pull-up that could have worked
Refused == PullUpWorks /\ Fault /\ denied' = TRUE /\ UNCHANGED <<up, reached>>

setCurrentUsbFunctions(functions) ==
  /\ pc = "idle"
  /\ Call
  /\ mCurrentUsbFunctions' = functions /\ mCurrentUsbFunctionsApplied' = FALSE
  /\ callback' \in BOOLEAN
  /\ pc' = "down"
  /\ answer' = "nothing" /\ reached' = FALSE /\ failed' = FALSE
  /\ UNCHANGED <<configfs, owners, inotify, stop, todo, monitorFfs, thread, leftover,
                 denied, ownerSteps, gadgetFaults>>

\* resetGadget: whether the gadget could be pulled down is not looked at
PullDown ==
  /\ pc = "down"
  /\ \/ up' = FALSE /\ pc' = "unlink" /\ UNCHANGED gadgetFaults
     \/ up' = up /\ pc' = "unlink" /\ Fault
     \/ up' = FALSE /\ pc' = "error" /\ Fault
  /\ UNCHANGED <<linked, owners, inotify, stop, mCurrentUsbFunctionsApplied, mCurrentUsbFunctions,
                 todo, callback, monitorFfs, thread, history, gadgetCalls, ownerSteps>>

\* mutant: the monitor is left running
MonitorLeft == "setup"

\* tearDownGadget: the links go, then the monitor, if it runs
AfterUnlink == IF mMonitorRunning THEN "stop" ELSE "setup"

Unlink ==
  /\ pc = "unlink"
  /\ \/ /\ linked' = {}
        /\ pc' = AfterUnlink
        /\ UNCHANGED gadgetFaults
     \/ /\ Fault
        /\ linked' \in (SUBSET linked) \ {{}}
        /\ pc' = "error"
  /\ up' = (up /\ linked' = linked)
  /\ UNCHANGED <<owners, inotify, stop, mCurrentUsbFunctionsApplied, mCurrentUsbFunctions,
                 todo, callback, monitorFfs, thread, history, gadgetCalls, ownerSteps>>

\* MonitorFfs::reset
StopMonitor ==
  /\ pc = "stop"
  /\ stop' = TRUE
  /\ pc' = "join"
  /\ UNCHANGED <<configfs, owners, inotify, mCurrentUsbFunctionsApplied, mCurrentUsbFunctions, todo,
                 callback, monitorFfs, thread, history, gadgetBounds>>

\* mutant: the flag of the last pull-up stays
PullupKept == gadgetPullup

PullupAfterReset == FALSE

Join ==
  /\ pc = "join"
  /\ monitor = "exited"
  /\ mMonitorRunning' = FALSE /\ monitor' = "off"
  /\ watched' = {} /\ mEndpointList' = {} /\ leftover' = FALSE
  /\ gadgetPullup' = PullupAfterReset
  /\ ffsCallback' = FALSE
  /\ pc' = "setup"
  /\ UNCHANGED <<configfs, owners, event, stop, mCurrentUsbFunctionsApplied, mCurrentUsbFunctions,
                 todo, callback, writeUdc, answer, reached, failed, denied, gadgetBounds>>

Answer(status) == answer' = IF callback THEN status ELSE answer

\* NONE is done; an unknown combination, or ids that cannot be written, are an error
Setup ==
  /\ pc = "setup"
  /\ \/ /\ mCurrentUsbFunctions = {}
        /\ Answer("success")
        /\ pc' = "idle"
        /\ UNCHANGED <<todo, gadgetFaults>>
     \/ /\ mCurrentUsbFunctions \in Supported
        /\ pc' = "link" /\ todo' = mCurrentUsbFunctions
        /\ UNCHANGED <<answer, gadgetFaults>>
     \/ /\ mCurrentUsbFunctions # {}
        /\ \/ mCurrentUsbFunctions \notin Supported /\ UNCHANGED gadgetFaults
           \/ mCurrentUsbFunctions \in Supported /\ Fault
        /\ pc' = "error"
        /\ UNCHANGED <<todo, answer>>
  /\ UNCHANGED <<configfs, owners, inotify, stop, mCurrentUsbFunctionsApplied, mCurrentUsbFunctions,
                 callback, monitorFfs, thread, reached, failed, leftover, denied, gadgetCalls,
                 ownerSteps>>

EndPoints(f) == {f} \cap Ffs

\* addGenericAndroidFunctions, addAdb: a watch, the link, the endpoints
Link(f) ==
  /\ pc = "link" /\ f \in todo
  /\ \A g \in todo : f <= g
  /\ \/ /\ watched' = watched \cup ({f} \cap Ffs)
        /\ linked' = linked \cup {f}
        /\ mEndpointList' = mEndpointList \cup EndPoints(f)
        /\ todo' = todo \ {f}
        /\ UNCHANGED <<pc, gadgetFaults>>
     \/ /\ Fault
        /\ watched' \in {watched, watched \cup ({f} \cap Ffs)}
        /\ pc' = "error" /\ todo' = {}
        /\ UNCHANGED <<linked, mEndpointList>>
  /\ UNCHANGED <<up, owners, event, stop, mCurrentUsbFunctionsApplied, mCurrentUsbFunctions,
                 callback, gadgetPullup, ffsCallback, mMonitorRunning, thread, history, gadgetCalls,
                 ownerSteps>>

\* setupFunctions without endpoints to wait for
PullUpAtOnce ==
  /\ pc = "link" /\ todo = {}
  /\ mCurrentUsbFunctions \cap Ffs = {}
  /\ \/ /\ PullUpWorks
        /\ PullUp
        /\ mCurrentUsbFunctionsApplied' = TRUE
        /\ Answer("success")
        /\ pc' = "idle"
        /\ UNCHANGED gadgetFaults
     \/ /\ IF PullUpWorks THEN Fault ELSE UNCHANGED gadgetFaults
        /\ pc' = "error"
        /\ UNCHANGED <<up, reached, mCurrentUsbFunctionsApplied, answer>>
  /\ UNCHANGED <<linked, owners, inotify, stop, mCurrentUsbFunctions, todo, callback, monitorFfs,
                 thread, failed, leftover, denied, gadgetCalls, ownerSteps>>

\* mutant: the thread starts with the wait for messages
StartInLoop == "loop"

FirstStep == "check"

startMonitor ==
  /\ pc = "link" /\ todo = {}
  /\ mCurrentUsbFunctions \cap Ffs # {}
  /\ ffsCallback' = TRUE
  /\ monitor' = FirstStep /\ writeUdc' = TRUE /\ mMonitorRunning' = TRUE
  /\ pc' = IF callback THEN "wait" ELSE "idle"
  /\ denied' = FALSE
  /\ UNCHANGED <<configfs, owners, inotify, stop, mCurrentUsbFunctionsApplied, mCurrentUsbFunctions,
                 todo, callback, mEndpointList, gadgetPullup, answer, reached, failed, leftover,
                 gadgetBounds>>

\* The timeout may come at any time; the monitor goes on
waitForPullUp ==
  /\ pc = "wait"
  /\ answer' = IF gadgetPullup THEN "success" ELSE "error"
  /\ pc' = "idle"
  /\ UNCHANGED <<configfs, owners, inotify, stop, mCurrentUsbFunctionsApplied, mCurrentUsbFunctions,
                 todo, callback, monitorFfs, thread, reached, failed, leftover, denied,
                 gadgetBounds>>

Error ==
  /\ pc = "error"
  /\ Answer("error")
  /\ pc' = "idle"
  /\ failed' = TRUE
  /\ leftover' = (~mMonitorRunning /\ mEndpointList # {})
  /\ UNCHANGED <<configfs, owners, inotify, stop, mCurrentUsbFunctionsApplied, mCurrentUsbFunctions,
                 todo, callback, monitorFfs, thread, reached, denied, gadgetBounds>>

\* reset: down, and up after a pause; an error of either ends it
ResetDown ==
  /\ pc = "idle"
  /\ Call
  /\ \/ up /\ up' = FALSE /\ pc' = "reset" /\ UNCHANGED gadgetFaults
     \/ (IF up THEN Fault ELSE UNCHANGED gadgetFaults) /\ UNCHANGED <<up, pc>>
  /\ UNCHANGED <<linked, owners, inotify, stop, mCurrentUsbFunctionsApplied, mCurrentUsbFunctions,
                 todo, callback, monitorFfs, thread, history, ownerSteps>>

ResetUp ==
  /\ pc = "reset"
  /\ pc' = "idle"
  /\ \/ PullUpWorks /\ PullUp /\ UNCHANGED <<denied, gadgetFaults>>
     \/ ~PullUpWorks /\ UNCHANGED <<up, reached, denied, gadgetFaults>>
     \/ Refused
  /\ UNCHANGED <<linked, owners, inotify, stop, mCurrentUsbFunctionsApplied, mCurrentUsbFunctions,
                 todo, callback, monitorFfs, thread, answer, failed, leftover, gadgetCalls,
                 ownerSteps>>

-----------------------------------------------------------------------------
(***************************************************************************)
(* startMonitorFd                                                          *)
(***************************************************************************)
DescriptorPresent == mEndpointList \subseteq owners

CheckFirst ==
  /\ monitor = "check"
  /\ monitor' = IF DescriptorPresent THEN "pull" ELSE "loop"
  /\ UNCHANGED <<configfs, owners, inotify, stop, mCurrentUsbFunctionsApplied, request, monitorFfs,
                 writeUdc, history, gadgetBounds>>

\* A write that fails is not tried again before the next message
MonitorPullUp ==
  /\ monitor = "pull"
  /\ \/ PullUpWorks /\ PullUp /\ monitor' = "applied" /\ UNCHANGED <<denied, gadgetFaults>>
     \/ ~PullUpWorks /\ monitor' = "loop" /\ UNCHANGED <<up, reached, denied, gadgetFaults>>
     \/ Refused /\ monitor' = "loop"
  /\ UNCHANGED <<linked, owners, inotify, stop, mCurrentUsbFunctionsApplied, request, monitorFfs,
                 writeUdc, answer, failed, leftover, gadgetCalls, ownerSteps>>

\* Under mLock; MonitorFfs::mCallback is currentFunctionsAppliedCallback
Applied ==
  /\ monitor = "applied"
  /\ mCurrentUsbFunctionsApplied' = TRUE
  /\ gadgetPullup' = TRUE /\ writeUdc' = FALSE
  /\ monitor' = "loop"
  /\ UNCHANGED <<configfs, owners, inotify, stop, request, mEndpointList, ffsCallback, mMonitorRunning,
                 history, gadgetBounds>>

InotifyEvent ==
  /\ monitor = "loop" /\ event
  /\ event' = FALSE
  /\ monitor' = IF DescriptorPresent /\ writeUdc THEN "pull" ELSE "loop"
  /\ writeUdc' = (writeUdc \/ ~DescriptorPresent)
  /\ denied' = FALSE
  /\ UNCHANGED <<configfs, owners, watched, stop, mCurrentUsbFunctionsApplied, request, monitorFfs,
                 answer, reached, failed, leftover, gadgetBounds>>

\* mutant: the flag read is compared with another value
StopNotKnown == "loop"

AfterStop == "exited"

StopEvent ==
  /\ monitor = "loop" /\ stop
  /\ stop' = FALSE
  /\ monitor' = AfterStop
  /\ UNCHANGED <<configfs, owners, inotify, mCurrentUsbFunctionsApplied, request, monitorFfs, writeUdc,
                 history, gadgetBounds>>

-----------------------------------------------------------------------------
Binder ==
  \/ PullDown \/ Unlink \/ StopMonitor \/ Join \/ Setup
  \/ \E f \in Functions : Link(f)
  \/ PullUpAtOnce \/ startMonitor \/ waitForPullUp \/ Error \/ ResetUp

Monitor == CheckFirst \/ MonitorPullUp \/ Applied \/ InotifyEvent \/ StopEvent

GadgetNext ==
  \/ \E functions \in Requests : setCurrentUsbFunctions(functions)
  \/ ResetDown
  \/ Binder \/ Monitor
  \/ \E f \in Ffs : OwnerStarts(f) \/ OwnerDies(f)

GadgetSpec == GadgetInit /\ [][GadgetNext]_gadgetVars

(***************************************************************************)
(* Both threads run: no write blocks, waitForPullUp has a timeout, and     *)
(* epoll_wait returns when a descriptor is readable, whichever it is.      *)
(***************************************************************************)
GadgetFairSpec ==
  GadgetSpec /\ WF_gadgetVars(Binder) /\ WF_gadgetVars(CheckFirst \/ MonitorPullUp \/ Applied)
       /\ WF_gadgetVars(InotifyEvent) /\ WF_gadgetVars(StopEvent)

-----------------------------------------------------------------------------
(***************************************************************************)
(* Except while it is being torn down, a gadget that is pulled up has the  *)
(* functions of the last request and no others, unless that request could  *)
(* not be set up: neither a monitor of an earlier request nor reset pulls  *)
(* up functions that are half linked (tearDownGadget, setupFunctions).     *)
(***************************************************************************)
UpIsRequested ==
  up /\ pc \notin {"down", "unlink", "error"} /\ ~failed => linked = mCurrentUsbFunctions

(***************************************************************************)
(* Success is answered only if the functions were pulled up since they     *)
(* were asked for, and for NONE only if the gadget is down and nothing is  *)
(* left that could pull it up (waitForPullUp, MonitorFfs::reset).          *)
(***************************************************************************)
SuccessIsReal ==
  answer = "success" =>
     IF mCurrentUsbFunctions = {} THEN ~up /\ monitor = "off" ELSE reached

\* Every call returns: the monitor always ends when it is asked to (MonitorFfs::reset).
CallReturns == pc # "idle" ~> pc = "idle"

\* The functions of the last request have their endpoints, a monitor, and are down
Waiting ==
  /\ pc = "idle" /\ mMonitorRunning /\ ~failed /\ ~leftover
  /\ mCurrentUsbFunctions \cap Ffs \subseteq owners
  /\ ~up

(***************************************************************************)
(* A monitor that knows the gadget is down pulls it up once the endpoints  *)
(* are there: no message is lost between the watch, the first look at the  *)
(* endpoints and the loop (startMonitorFd).  A pull-up that the kernel     *)
(* refused is left out: the code waits for the next message with it.       *)
(***************************************************************************)
PullsUp == []<>~(Waiting /\ writeUdc /\ ~denied)

(***************************************************************************)
(* MonitorFfs "Restarts the usb gadget when the ep owner restarts": the    *)
(* gadget does not stay down while the endpoints are there.                *)
(***************************************************************************)
RestartsGadget == []<>~Waiting
=============================================================================
