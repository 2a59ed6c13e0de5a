----------------------------- MODULE MCComLocal -----------------------------
(* Instances of ComLocal for TLC: who calls what, with whom, how often.    *)
EXTENDS ComLocal, TLC

CONSTANTS t1, t2, t3  \* model values: the ranks

Anything == <<AnySrc, AnyTag>>

(* t1 receives in every way; t2 sends without waiting, so that one message *)
(* can overtake another, and blocking.                                     *)
CallsPt2Pt == t1 :> {"recv", "irecv", "wait"} @@ t2 :> {"isend", "send", "wait"} @@ t3 :> {}
OpsPt2Pt   == t1 :> 2 @@ t2 :> 2 @@ t3 :> 0
SendsPt2Pt == t1 :> {} @@ t2 :> {<<t1, 1>>, <<t1, 2>>} @@ t3 :> {}
WantsPt2Pt == t1 :> {Anything, <<t2, 1>>, <<t2, 2>>} @@ t2 :> {} @@ t3 :> {}

(* t1 waits for the messages of two senders together; one of them gives up *)
(* if it can, and waits.                                                   *)
CallsWaits == t1 :> {"irecv", "waitany", "waitall", "waitsome"}
           @@ t2 :> {"send"} @@ t3 :> {"isend", "cancel"}
OpsWaits   == t1 :> 2 @@ t2 :> 1 @@ t3 :> 1
SendsWaits == t1 :> {} @@ t2 :> {<<t1, 1>>} @@ t3 :> {<<t1, 1>>}
WantsWaits == t1 :> {Anything, <<t2, 1>>} @@ t2 :> {} @@ t3 :> {}

(* The steps of these programs; the others need calls none of them makes.  *)
WaitsNext ==
  \E t \in Thr :
    \/ SendFeed(t) \/ SendComplete(t) \/ SendSignal(t)
    \/ RecvFeed(t) \/ RecvComplete(t) \/ RecvSignal(t)
    \/ EnterWait(t) \/ EnterWaitany(t) \/ EnterWaitall(t) \/ EnterWaitsome(t)
    \/ Wake(t) \/ Finish(t)
    \/ TimedSend(t) \/ Asend(t) \/ Arecv(t) \/ StartWait(t) \/ CancelSend(t)

WaitsSpec == Init /\ [][WaitsNext]_vars /\ \A t \in Thr : WF_vars(Inside(t))

(* Persistent requests on both sides, completed by the test family.        *)
CallsTests == t1 :> {"recv_init", "precv_start", "irecv", "test", "testany"}
           @@ t2 :> {"send_init", "psend_start", "testall", "testsome"} @@ t3 :> {}
OpsTests   == t1 :> 2 @@ t2 :> 2 @@ t3 :> 0
SendsTests == t1 :> {} @@ t2 :> {<<t1, 1>>, <<t1, 2>>} @@ t3 :> {}
WantsTests == t1 :> {Anything, <<t2, 2>>} @@ t2 :> {} @@ t3 :> {}

(* t1 probes before it receives.                                           *)
CallsProbe == t1 :> {"probe", "aprobe", "recv", "irecv", "wait"}
           @@ t2 :> {"isend"} @@ t3 :> {"send"}
OpsProbe   == t1 :> 2 @@ t2 :> 2 @@ t3 :> 1
SendsProbe == t1 :> {} @@ t2 :> {<<t1, 1>>} @@ t3 :> {<<t1, 1>>}
WantsProbe == t1 :> {Anything, <<t3, 1>>} @@ t2 :> {} @@ t3 :> {}

(* Sleeps end early; receives are cancelled whenever the code allows it.   *)
CallsFaults == t1 :> {"irecv", "waitany", "waitsome", "cancel"}
            @@ t2 :> {} @@ t3 :> {"send", "isend"}
OpsFaults   == t1 :> 2 @@ t2 :> 0 @@ t3 :> 2
SendsFaults == t1 :> {} @@ t2 :> {} @@ t3 :> {<<t1, 1>>}
WantsFaults == t1 :> {Anything} @@ t2 :> {} @@ t3 :> {}

(* A receive is cancelled while its message is being copied.               *)
CallsCancel == t1 :> {"irecv", "cancel"} @@ t2 :> {} @@ t3 :> {"isend"}
OpsCancel   == t1 :> 1 @@ t2 :> 0 @@ t3 :> 1
SendsCancel == SendsFaults
WantsCancel == WantsFaults

(* A wait times out and is called again.                                   *)
CallsTimeout == t1 :> {"irecv", "wait"} @@ t2 :> {} @@ t3 :> {"isend"}
OpsTimeout   == OpsCancel
SendsTimeout == SendsFaults
WantsTimeout == WantsFaults
=============================================================================
