------------------------------ MODULE MCHttps ------------------------------
(* Https, with the expiry alerts on record.                                *)
EXTENDS Https

CONSTANTS c1, c2, ca

VARIABLE alerts  \* about the certificate that is in place, since it was put there; two at most

MCIssuer == [x \in Cert \cup CA |-> ca]
hvars == <<vars, alerts>>

\* FallBack raises an alert when its warning is not the last one.
Alerts(x) ==
  /\ job.op = "commit" /\ job.monitor.stands = "attention" /\ job.monitor.failures = 0
  /\ job.monitor.warned = x /\ monitor.warned # x

HInit == Init /\ alerts = 0
HNext ==
  /\ Next
  /\ alerts' = IF file'.cert # file.cert THEN 0
               ELSE IF Commit /\ Alerts(file.cert) /\ alerts < 2 THEN alerts + 1
               ELSE alerts
HSpec == HInit /\ [][HNext]_hvars /\ Fairness

\* An expired certificate is reported once while it stays in place, not every hour: the
\* job remembers what it warned of, and a run that is rolled back takes the alert and the
\* memory together.  A call that was accepted before it expired may put it back in place of
\* another; then it is reported again.
OneAlertPerExpiry == alerts < 2
=============================================================================
