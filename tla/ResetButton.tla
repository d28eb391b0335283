----------------------------- MODULE ResetButton -----------------------------
(***************************************************************************)
(* The provisioning reset of BleProvisioningRuntime: the two handlers that *)
(* the button library calls, in its task, when the key has been held for   *)
(* CONFIG_DEVICE_PROV_RESET_HOLD_MS and when it is let go.  What happens   *)
(* inside the application's reset callback, between LongPressStart and     *)
(* CallbackReturns, and what a restart does, is for the modules that       *)
(* extend this one.                                                        *)
(***************************************************************************)

VARIABLES
    key,       \* the key of the button, as the user holds it
    handler,   \* what the button task is doing
    armed,     \* reset_armed_
    committed  \* reset_committed_

buttonVars == <<key, handler, armed, committed>>

\* "holding": a long press was reported and the library waits for the release.
Handlers == {"watching", "callback", "holding", "releasing", "clearing",
             "failing", "restarting"}

ButtonInit ==
    /\ key = "up"
    /\ handler = "watching"
    /\ armed = FALSE
    /\ committed = FALSE

\* The user presses or releases the key, or it bounces.
Toggle ==
    /\ key' = IF key = "up" THEN "down" ELSE "up"
    /\ UNCHANGED <<handler, armed, committed>>

\* handleLongPressStart up to the callback.
LongPressStart ==
    /\ handler = "watching"
    /\ key = "down"
    /\ armed' = (armed \/ ~committed)
    /\ handler' = IF committed \/ armed THEN "holding" ELSE "callback"
    /\ UNCHANGED <<key, committed>>

\* The callback says whether the device is in a safe state.
CallbackReturns(stopped) ==
    /\ handler = "callback"
    /\ armed' = (armed /\ stopped)
    /\ handler' = "holding"
    /\ UNCHANGED <<key, committed>>

\* The library notices the release; handleLongPressUp reads the key again.
Released ==
    /\ handler = "holding"
    /\ key = "up"
    /\ handler' = "releasing"
    /\ UNCHANGED <<key, armed, committed>>

\* Mutant of LongPressUp: the flag stays set after an unstable release.
LongPressUpKept ==
    /\ handler = "releasing"
    /\ armed' = FALSE
    /\ committed' = (committed \/ armed)
    /\ handler' = IF armed /\ ~committed /\ key = "up" THEN "clearing" ELSE "watching"
    /\ UNCHANGED key

\* handleLongPressUp up to clearProvisioning: the release must be stable.
LongPressUp ==
    /\ handler = "releasing"
    /\ armed' = FALSE
    /\ IF armed /\ ~committed /\ key = "up"
       THEN committed' = TRUE /\ handler' = "clearing"
       ELSE UNCHANGED committed /\ handler' = "watching"
    /\ UNCHANGED key

\* clearProvisioning: the credentials are erased, or they are not and the
\* failure callback runs.
ClearSucceeds ==
    /\ handler = "clearing"
    /\ handler' = "restarting"
    /\ UNCHANGED <<key, armed, committed>>

\* Mutant of ClearFails: nobody looks at the result.
ClearFailsUnchecked ==
    /\ handler = "clearing"
    /\ handler' = "restarting"
    /\ UNCHANGED <<key, armed, committed>>

ClearFails ==
    /\ handler = "clearing"
    /\ committed' = FALSE
    /\ handler' = "failing"
    /\ UNCHANGED <<key, armed>>

FailureCallbackReturns ==
    /\ handler = "failing"
    /\ handler' = "watching"
    /\ UNCHANGED <<key, armed, committed>>

\* esp_restart: the key is where the user holds it, the memory is fresh.
ButtonRestarts ==
    /\ handler = "restarting"
    /\ handler' = "watching"
    /\ armed' = FALSE
    /\ committed' = FALSE
    /\ UNCHANGED key

ButtonTypeOK ==
    /\ key \in {"up", "down"}
    /\ handler \in Handlers
    /\ armed \in BOOLEAN
    /\ committed \in BOOLEAN

\* Whatever becomes of a long press - refused by the application, released
\* unsteadily, failed to clear - it leaves no flag behind that would make the
\* handlers ignore the next one, and a reset is only committed on its way to
\* the restart.
FlagsFollowThePress ==
    /\ armed => handler \in {"callback", "holding", "releasing"}
    /\ committed <=> handler \in {"clearing", "restarting"}
=============================================================================
