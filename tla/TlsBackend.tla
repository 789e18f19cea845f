----------------------------- MODULE TlsBackend -----------------------------
(***************************************************************************)
(* How a TLS context and a TLS connection come into being and go: tls.c    *)
(* over one of the backends (src/crypto/openssl.c, wolfssl.c, mbedtls.c).  *)
(* Every call of the library, and every malloc, may fail; what was made    *)
(* before must then be freed, and the receive timeout that guards the      *)
(* handshake must be off again.                                            *)
(*                                                                         *)
(* A function is the sequence of its fallible calls.  A call has what      *)
(* exists when it succeeds (makes), what its error path frees (frees), and *)
(* whether that path clears the timeout.                                   *)
(***************************************************************************)
EXTENDS Integers, Sequences

CONSTANTS
    Backends,       \* those that may be compiled in
    MaxInits        \* bound: references to wolfSSL, lost ones included

ASSUME BackendsAssumption == Backends \subseteq {"openssl", "wolfssl", "mbedtls"}

VARIABLES
    t_backend,      \* the backend that was compiled in
    t_op,           \* the function that is running, "none" outside
    t_at,           \* its next call
    t_alive,        \* objects that exist
    t_wild,         \* history: was something freed that did not exist?
    t_timeout,      \* is SO_RCVTIMEO set on the socket?
    t_ctx, t_conn,  \* does the application have a context, a connection?
    t_inits,        \* calls of wolfSSL_Init that no wolfSSL_Cleanup has undone
    t_stuck         \* history: calls of wolf_ctx_new that failed

tlsVars == <<t_backend, t_op, t_at, t_alive, t_wild, t_timeout, t_ctx, t_conn, t_inits, t_stuck>>

Call(makes, frees) == [does |-> "call", makes |-> makes, frees |-> frees, clears |-> FALSE]
Guarded(makes, frees) == [Call(makes, frees) EXCEPT !.clears = TRUE]
Handshake(frees) == [Guarded({}, frees) EXCEPT !.does = "handshake"]
SetTimeout == [Call({}, {}) EXCEPT !.does = "set"]
ClearTimeout == [Call({}, {}) EXCEPT !.does = "clear"]
-----------------------------------------------------------------------------
\* ossl_ctx_new: context, certificate, key, check, malloc.
OsslCtxNew == <<Call({"lib_ctx"}, {}), Call({}, {"lib_ctx"}), Call({}, {"lib_ctx"}),
                Call({}, {"lib_ctx"}), Call({"ctx"}, {"lib_ctx"})>>

\* wolf_ctx_new: context, certificate, key, malloc.
WolfCtxNew == <<Call({"lib_ctx"}, {}), Call({}, {"lib_ctx"}), Call({}, {"lib_ctx"}),
                Call({"ctx"}, {"lib_ctx"})>>

\* mbed_ctx_new: calloc, which the library's objects are part of; seed,
\* certificate, key, defaults, own certificate.
MbedCtxNew ==
    LET fail == {"ctx", "lib_ctx"}
    IN  <<Call({"ctx", "lib_ctx"}, {}), Call({}, fail), Call({}, fail), Call({}, fail),
          Call({}, fail), Call({}, fail)>>

\* ossl_accept: SSL_new, SSL_set_fd, SSL_accept, malloc.
OsslAccept == <<SetTimeout, Guarded({"ssl"}, {}), Guarded({}, {"ssl"}), Handshake({"ssl"}),
                ClearTimeout, Call({"conn"}, {"ssl"})>>

\* wolf_accept: wolfSSL_new, wolfSSL_accept, malloc.
WolfAccept == <<SetTimeout, Guarded({"ssl"}, {}), Handshake({"ssl"}),
                ClearTimeout, Call({"conn"}, {"ssl"})>>

\* mbed_accept: calloc, mbedtls_ssl_setup, which undoes itself, and the
\* handshake, which is repeated while it wants more.
MbedAccept == <<SetTimeout, Guarded({"conn"}, {}), Guarded({"ssl"}, {"conn"}),
                Handshake({"ssl", "conn"}), ClearTimeout>>

\* ctx_free and conn_free of the backends.
CtxFree == {"ctx", "lib_ctx"}
ConnFree == {"ssl", "conn"}

\* Compy_TlsContext_new.
ContextNew ==
    (CASE t_backend = "openssl" -> OsslCtxNew
       [] t_backend = "wolfssl" -> WolfCtxNew
       [] t_backend = "mbedtls" -> MbedCtxNew) \o <<Call({"tls_ctx"}, CtxFree)>>

\* Compy_TlsConn_accept.
ConnAccept ==
    (CASE t_backend = "openssl" -> OsslAccept
       [] t_backend = "wolfssl" -> WolfAccept
       [] t_backend = "mbedtls" -> MbedAccept) \o <<Call({"tls_conn"}, ConnFree)>>

CtxObjects == CtxFree \cup {"tls_ctx"}
ConnObjects == ConnFree \cup {"tls_conn"}

TlsProgram == IF t_op = "new" THEN ContextNew ELSE ConnAccept
-----------------------------------------------------------------------------
TlsInit ==
    /\ t_backend \in Backends
    /\ t_op = "none" /\ t_at = 1
    /\ t_alive = {} /\ t_wild = FALSE /\ t_timeout = FALSE
    /\ t_ctx = FALSE /\ t_conn = FALSE
    /\ t_inits = 0 /\ t_stuck = 0

\* wolf_ctx_new begins with wolfSSL_Init, whose result it does not look at.
LibraryInit(op) ==
    /\ op = "new" => t_inits < MaxInits
    /\ t_inits' = IF op = "new" /\ t_backend = "wolfssl" THEN t_inits + 1 ELSE t_inits

\* Mutant: the context is freed and the library stays.
LibraryCleanup_Forgotten == UNCHANGED t_inits

\* wolf_ctx_free ends with wolfSSL_Cleanup.
LibraryCleanup == t_inits' = IF t_backend = "wolfssl" THEN t_inits - 1 ELSE t_inits

\* The application makes a context, and with it accepts a connection.
Enter(op) ==
    /\ t_op = "none"
    /\ IF op = "new" THEN ~t_ctx ELSE t_ctx /\ ~t_conn
    /\ t_op' = op /\ t_at' = 1
    /\ LibraryInit(op)
    /\ UNCHANGED <<t_backend, t_alive, t_wild, t_timeout, t_ctx, t_conn, t_stuck>>

Frees(objects) ==
    /\ t_alive' = t_alive \ objects
    /\ t_wild' = (t_wild \/ ~(objects \subseteq t_alive))

\* The next call succeeds; behind the last one the application has its object.
Succeed ==
    LET call == TlsProgram[t_at]
        last == t_at = Len(TlsProgram)
    IN  /\ t_op # "none"
        /\ t_alive' = t_alive \cup call.makes
        /\ t_timeout' = IF call.does = "set" THEN TRUE
                        ELSE IF call.does = "clear" THEN FALSE ELSE t_timeout
        /\ t_at' = IF last THEN 1 ELSE t_at + 1
        /\ t_op' = IF last THEN "none" ELSE t_op
        /\ t_ctx' = (t_ctx \/ (last /\ t_op = "new"))
        /\ t_conn' = (t_conn \/ (last /\ t_op = "accept"))
        /\ UNCHANGED <<t_backend, t_wild, t_inits, t_stuck>>

\* The references to the library when a call fails: Compy_TlsContext_new calls
\* ctx_free if its own malloc, the last call, fails; wolf_ctx_new only returns.
FailedReferences ==
    IF t_op = "new" /\ t_at = Len(TlsProgram)
    THEN LibraryCleanup /\ UNCHANGED t_stuck
    ELSE /\ t_stuck' = IF t_op = "new" /\ t_backend = "wolfssl" THEN t_stuck + 1 ELSE t_stuck
         /\ UNCHANGED t_inits

\* It fails, and NULL is returned.
Fail ==
    LET call == TlsProgram[t_at]
    IN  /\ t_op # "none"
        /\ call.does \in {"call", "handshake"}
        /\ Frees(call.frees)
        /\ t_timeout' = (t_timeout /\ ~call.clears)
        /\ t_op' = "none" /\ t_at' = 1
        /\ FailedReferences
        /\ UNCHANGED <<t_backend, t_ctx, t_conn>>

\* Compy_TlsConn_free, Compy_TlsContext_free; the connection goes first.
ConnDone ==
    /\ t_op = "none" /\ t_conn
    /\ Frees(ConnObjects)
    /\ t_conn' = FALSE
    /\ UNCHANGED <<t_backend, t_op, t_at, t_timeout, t_ctx, t_inits, t_stuck>>

ContextDone ==
    /\ t_op = "none" /\ t_ctx /\ ~t_conn
    /\ Frees(CtxObjects)
    /\ t_ctx' = FALSE
    /\ LibraryCleanup
    /\ UNCHANGED <<t_backend, t_op, t_at, t_timeout, t_conn, t_stuck>>

TlsNext == Enter("new") \/ Enter("accept") \/ Succeed \/ Fail \/ ConnDone \/ ContextDone

TlsSpec == TlsInit /\ [][TlsNext]_tlsVars
-----------------------------------------------------------------------------
\* Whichever call fails, with whichever backend: the objects that exist are
\* those that the application can free, nothing is freed twice, the socket comes
\* back without the timeout, and there is one whenever the library waits for the
\* client ("a stalled client can't hang the accept thread").  The library itself
\* is let go with the context; the references that remain are exactly those of
\* the calls of wolf_ctx_new that failed, none of which gives its own back.
TlsReleased ==
    /\ ~t_wild
    /\ t_op = "none" =>
           /\ t_alive = (IF t_ctx THEN CtxObjects ELSE {}) \cup (IF t_conn THEN ConnObjects ELSE {})
           /\ ~t_timeout
           /\ t_inits = t_stuck + (IF t_ctx /\ t_backend = "wolfssl" THEN 1 ELSE 0)
    /\ t_op # "none" /\ TlsProgram[t_at].does = "handshake" => t_timeout
=============================================================================
