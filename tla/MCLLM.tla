------------------------------- MODULE MCLLM --------------------------------
(***************************************************************************)
(* A small instance of LLMRun.  One unit of time stands for two minutes of *)
(* requests: a run of 10 units has room for two HTTP timeouts and a half,  *)
(* as in the code.  Waits are longer than in the code, so that they meet   *)
(* the deadline as well.                                                   *)
(***************************************************************************)
EXTENDS LLMRun

Resp(s, after, code, finish) ==
    [status |-> s, retryAfter |-> after, code |-> code, finish |-> finish]

MCResponses ==
    {Resp(200, 0, 0, "stop"), Resp(200, 0, 0, "length"), Resp(200, 0, 0, "content_filter"),
     Resp(200, 0, 0, "empty"), Resp(200, 0, 402, "none"), Resp(200, 0, -1, "none"),
     Resp(200, 2, 429, "none"),
     Resp(429, 2, 0, "none"), Resp(429, 5, 0, "none"), Resp(503, 0, 0, "none"),
     Resp(501, 0, 0, "none")}

MCLatencies == {0, 1, 4}

=============================================================================
