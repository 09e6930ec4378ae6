------------------------------- MODULE UsbHid -------------------------------
(***************************************************************************)
(* 013.usb/usb_hid: a report every two seconds, sent by a work item, with  *)
(* one bit, hid_ep_in_busy, to say that the endpoint is taken.             *)
(*                                                                         *)
(* Contexts: the timer interrupt stops anything; send_report (system work  *)
(* queue) and the callbacks (USB work queue) are cooperative threads, so   *)
(* that neither stops the other between its steps.  Bus events come before *)
(* the callback that tells of them.                                        *)
(*                                                                         *)
(* External: the driver and the host (a write is accepted only while the   *)
(* driver's endpoint is open, and may fail at any time).                   *)
(*                                                                         *)
(* main is one step: the timer's first period of two seconds is longer     *)
(* than the rest of main, and a host takes longer to configure the device. *)
(* When main ends early, the timer runs on and submits a work item that    *)
(* nobody has initialised; no host sees the device then.                   *)
(***************************************************************************)
EXTENDS Naturals

CONSTANT Wrap  \* number of values of report_1.value, a uint8_t

ASSUME WrapAssumption == Wrap \in Nat \ {0}

None == Wrap   \* no report

VARIABLES value,      \* report_1.value
          busy,       \* hid_ep_in_busy
          configured, \* the program's view of the bus
          work,       \* report_send is queued
          at,         \* where send_report is
          up,         \* how main has ended, if it has
          bus,        \* the host's view of the bus
          open,       \* the driver's endpoint is enabled
          pipe,       \* the report that waits in it for the host, or None
          inDone,     \* the host took one, int_in_ready_cb is due
          failed      \* history: a write failed since the bus was configured

host == <<bus, open, pipe, inDone>>
vars == <<value, busy, configured, work, at, up, host, failed>>

Init == /\ value = 0 /\ busy = FALSE /\ configured = FALSE /\ work = FALSE /\ at = "idle"
        /\ up = "boot" /\ bus = "off" /\ open = FALSE
        /\ pipe = None /\ inDone = FALSE /\ failed = FALSE

\* There is no HID device ("none"), usb_hid_init or usb_enable fails with the
\* timer already running ("timer"), or all goes well.  The bit is set until the
\* host configures the device.
main == /\ up = "boot"
        /\ \/ up' = "none" /\ UNCHANGED busy
           \/ up' \in {"timer", "ready"} /\ busy' = TRUE
        /\ UNCHANGED <<value, configured, work, at, host, failed>>

-----------------------------------------------------------------------------
(* The timer and the work item.                                            *)

\* k_work_submit leaves a queued item alone and queues a running one again.
k_work_submit == work' = TRUE

report_event_handler ==
  /\ up \in {"timer", "ready"} /\ at # "fault" /\ k_work_submit
  /\ value' = (value + 1) % Wrap
  /\ UNCHANGED <<busy, configured, at, up, host, failed>>

\* atomic_test_and_set_bit
send_report ==
  /\ up = "ready" /\ at = "idle" /\ work
  /\ work' = FALSE
  /\ busy' = TRUE
  /\ at' = IF busy THEN "idle" ELSE "write"
  /\ UNCHANGED <<value, configured, up, host, failed>>

\* The work queue calls the handler of a work item that k_work_init has not
\* seen, which is NULL: the kernel stops everything.
CallNull ==
  /\ up = "timer" /\ at = "idle" /\ work
  /\ work' = FALSE
  /\ at' = "fault"
  /\ UNCHANGED <<value, busy, configured, up, host, failed>>

\* hid_int_ep_write; after a failure nothing is done.
Write ==
  /\ at = "write"
  /\ at' = "idle"
  /\ \/ open /\ pipe' = value /\ UNCHANGED failed
     \/ failed' = TRUE /\ UNCHANGED pipe
  /\ UNCHANGED <<value, busy, configured, work, up, bus, open, inDone>>

-----------------------------------------------------------------------------
(* The callbacks.                                                          *)

\* int_in_ready_cb that forgets the bit.
InReadyOnly ==
  /\ at = "idle" /\ inDone
  /\ inDone' = FALSE
  /\ UNCHANGED <<value, busy, configured, work, at, up, bus, open, pipe, failed>>

int_in_ready_cb ==
  /\ at = "idle" /\ inDone
  /\ inDone' = FALSE
  /\ busy' = FALSE
  /\ UNCHANGED <<value, configured, work, at, up, bus, open, pipe, failed>>

on_idle_cb ==
  /\ at = "idle" /\ bus = "configured" /\ k_work_submit
  /\ UNCHANGED <<value, busy, configured, at, up, host, failed>>

\* ResetStatus that is ignored.
ResetIgnored ==
  /\ at = "idle" /\ bus = "reset"
  /\ bus' = "default" /\ open' = FALSE /\ pipe' = None /\ inDone' = FALSE
  /\ UNCHANGED <<value, busy, configured, work, at, up, failed>>

\* status_cb(USB_DC_RESET): the driver has closed the endpoint.
ResetStatus ==
  /\ at = "idle" /\ bus = "reset"
  /\ bus' = "default" /\ open' = FALSE /\ pipe' = None /\ inDone' = FALSE
  /\ configured' = FALSE
  /\ UNCHANGED <<value, busy, work, at, up, failed>>

\* ConfiguredStatus that clears the bit whenever it is called.
ConfiguredAlways ==
  /\ at = "idle" /\ bus \in {"default", "configured"}
  /\ bus' = "configured" /\ open' = TRUE
  /\ busy' = FALSE /\ configured' = TRUE
  /\ failed' = (failed /\ configured)
  /\ UNCHANGED <<value, work, at, up, pipe, inDone>>

\* status_cb(USB_DC_CONFIGURED), which a host may cause again without a reset.
ConfiguredStatus ==
  /\ at = "idle" /\ bus \in {"default", "configured"}
  /\ bus' = "configured" /\ open' = TRUE
  /\ busy' = (busy /\ configured) /\ configured' = TRUE
  /\ failed' = (failed /\ configured)
  /\ UNCHANGED <<value, work, at, up, pipe, inDone>>

-----------------------------------------------------------------------------
(* The host.                                                               *)

HostPolls ==
  /\ bus = "configured" /\ pipe # None
  /\ pipe' = None /\ inDone' = TRUE
  /\ UNCHANGED <<value, busy, configured, work, at, up, bus, open, failed>>

HostResets ==
  /\ up = "ready" /\ bus # "reset"
  /\ bus' = "reset"
  /\ UNCHANGED <<value, busy, configured, work, at, up, open, pipe, inDone, failed>>

\* USB_DC_DISCONNECTED is not handled.
Unplug ==
  /\ bus # "off"
  /\ bus' = "off" /\ open' = FALSE /\ pipe' = None
  /\ UNCHANGED <<value, busy, configured, work, at, up, inDone, failed>>

-----------------------------------------------------------------------------
Callback == int_in_ready_cb \/ on_idle_cb \/ ResetStatus \/ ConfiguredStatus
Next == \/ main \/ report_event_handler \/ send_report \/ CallNull \/ Write \/ Callback
        \/ HostPolls \/ HostResets \/ Unplug

Spec == Init /\ [][Next]_vars

(***************************************************************************)
(* Fairness: the timer fires, the work queues run, a configured host polls *)
(* the endpoint.  The host need not configure the device, nor keep it so.  *)
(***************************************************************************)
Fairness == /\ WF_vars(report_event_handler) /\ WF_vars(send_report) /\ WF_vars(Write)
            /\ WF_vars(int_in_ready_cb) /\ WF_vars(HostPolls)
FairSpec == Spec /\ Fairness

-----------------------------------------------------------------------------
HidTypeOK == /\ value \in 0 .. Wrap - 1 /\ pipe \in 0 .. Wrap
             /\ busy \in BOOLEAN /\ configured \in BOOLEAN /\ work \in BOOLEAN
             /\ up \in {"boot", "none", "timer", "ready"} /\ open \in BOOLEAN /\ inDone \in BOOLEAN
             /\ failed \in BOOLEAN
             /\ at \in {"idle", "write", "fault"}
             /\ bus \in {"off", "reset", "default", "configured"}
             /\ open => bus \in {"reset", "configured"}
             /\ ~(pipe # None /\ inDone)

(***************************************************************************)
(* The bit guards the endpoint through resets, unplugging and repeated     *)
(* configuration: it is set while a report is in the endpoint or its       *)
(* callback is due, and send_report never writes over such a report.       *)
(***************************************************************************)
EndpointGuarded == /\ pipe # None \/ inDone \/ at = "write" => busy
                   /\ at = "write" => pipe = None /\ ~inDone

(***************************************************************************)
(* The bit is never left set for nothing: on a configured bus it means     *)
(* that a report is on its way or that a write failed, which is cured by   *)
(* the reset the comment in send_report waits for.                         *)
(***************************************************************************)
BusyHasReason == busy /\ bus = "configured" => \/ pipe # None \/ inDone \/ at = "write"
                                               \/ failed

(***************************************************************************)
(* Reports keep flowing on a bus that stays configured without a failed    *)
(* write, whatever happened to the bus and to writes before.               *)
(***************************************************************************)
ReportsFlow == <>[](bus = "configured" /\ ~failed) => []<><<HostPolls>>_vars
=============================================================================
