--------------------------- MODULE MCNatsBinding ---------------------------
(* An instance of NatsBinding for TLC. *)
EXTENDS NatsBinding, TLC

(* A topic whose sanitized form differs: "inference/run.completed". *)
done == <<"inference/run", "completed">>
acme == <<"acme">>

MCTopics == {done}
MCTenants == {acme}
MCSubjectTokens ==
    (acme :> <<"acme">>) @@ (done :> <<"inference", "run", "completed">>)
MCPublishRequests ==
    {[head |-> [version |-> "", messageID |-> EmptyString, tenant |-> acme,
                key |-> EmptyString],
      path |-> done, topic |-> EmptyString]}
=============================================================================
