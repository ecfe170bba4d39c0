-------------------------------- MODULE Tab --------------------------------
(***************************************************************************)
(* One browser tab: the session it holds in memory and in local storage    *)
(* (auth-context.tsx), the page shown, the queries the page mounted and    *)
(* the answers on their way (react-query), at most one write at a time,    *)
(* and the redirects.  Answers that were on their way when their page was  *)
(* left, or when their query was asked again, stay on their way: only a    *)
(* 401 among them still has an effect.  Data read and shown is told apart  *)
(* by what it missed: the tables a write of this very view changed after   *)
(* the server read it; "none" is shown where nothing is promised: nothing  *)
(* was read yet, or the last answer did not come.  The cache of pages no   *)
(* longer shown is left out, as every query is asked again when its page   *)
(* is (staleTime 0).  A query that waits for what another returns (enabled) *)
(* is asked at once: the orders of the answers include the code's.         *)
(***************************************************************************)
EXTENDS Pages, SequencesExt

CONSTANTS Tokens,           \* claims of the users who sign in
          SignedOut, None

VARIABLES page, session, stored, live, asked, write, timer, late, reloading
vars == <<page, session, stored, live, asked, write, timer, late, reloading>>
Fresh   == [data |-> "none", fetch |-> "sent", missed |-> {}, seen |-> {}]
NoWrite == [calls |-> <<>>, keys |-> {}, to |-> None, state |-> "none", old |-> FALSE]
\* A write whose page was left: only that it may still end counts.
Left(old) ==
  IF write = NoWrite THEN NoWrite
  ELSE [NoWrite EXCEPT !.state = "left", !.to = write.to, !.old = old \/ write.old]
Flying(h)   == asked[h].fetch # "no"
AnyFlying   == \E h \in DOMAIN asked : Flying(h)
Landing(claims) ==
  IF AnyWallet \cap claims.roles # {} THEN "/admin/dashboard" ELSE "/dashboard"
AuthRoutePages == {"/login", "/register"}
Unguarded      == AuthRoutePages \cup {"/"}

\* Bound: the user moves on once no more than one move's requests are left behind.
FewLeftBehind == late = {} /\ write.state # "left"

\* What a page asks at once when it is mounted with a session.
Opening(p, claims) ==
  IF p \in Unguarded \/ claims = SignedOut THEN <<>>
  ELSE IF LetsIn(p, claims) THEN [h \in Mounted(p, claims) |-> Fresh] ELSE <<>>

\* A client-side move: the page left unmounts, its requests go on.
Mount(p, claims) ==
  /\ page' = p
  /\ asked' = Opening(p, claims)
  /\ write' = Left(FALSE)
  /\ late' = IF AnyFlying THEN late \cup {"this"} ELSE late

\* A full load: nothing but local storage survives.
LoadPage(p) ==
  /\ page' = p /\ session' = stored /\ asked' = Opening(p, stored)
  /\ write' = NoWrite /\ timer' = None /\ late' = {} /\ reloading' = FALSE
  /\ UNCHANGED <<stored, live>>

----------------------------------------------------------------------------
(* The session.                                                            *)
Enter(claims, to) ==
  /\ session' = claims /\ stored' = claims /\ live' = TRUE /\ timer' = to
  /\ late' = IF late = {} THEN {} ELSE {"former"}
  /\ write' = Left(TRUE)
  /\ UNCHANGED <<page, asked, reloading>>
SignIn(claims) == page = "/login" /\ Enter(claims, Landing(claims))
Register == page = "/register" /\ Enter(Claims(Investors, {}), "/dashboard")

\* NavShell.handleLogout.
LogOut ==
  /\ FewLeftBehind /\ session # SignedOut /\ page \notin AuthRoutePages
  /\ session' = SignedOut /\ stored' = SignedOut
  /\ page' = "/login" /\ asked' = <<>>
  /\ write' = Left(TRUE)
  /\ late' = IF AnyFlying \/ late # {} THEN {"former"} ELSE {}
  /\ UNCHANGED <<live, timer, reloading>>

\* The API refuses the token from now on.
Expire ==
  /\ live /\ stored # SignedOut
  /\ live' = FALSE
  /\ UNCHANGED <<page, session, stored, asked, write, timer, late, reloading>>

\* Mutant: local storage is cleared and the page stays.
SessionCleared ==
  /\ stored' = SignedOut
  /\ UNCHANGED <<page, session, live, timer, reloading>>
\* request(): a 401 to a call that carried a token.
SessionEnds ==
  /\ stored' = SignedOut
  /\ reloading' = (reloading \/ page # "/login")
  /\ UNCHANGED <<page, session, live, timer>>
Reload == reloading /\ LoadPage("/login")

----------------------------------------------------------------------------
(* Moving about.                                                           *)
\* RequireRole's effect.
Redirect ==
  /\ page \notin Unguarded
  /\ \/ session = SignedOut /\ Mount("/login", session)
     \/ session # SignedOut /\ ~LetsIn(page, session) /\ Mount("/", session)
  /\ UNCHANGED <<session, stored, live, timer, reloading>>

\* HomePage's effect.
LeaveHome ==
  /\ page = "/" /\ session # SignedOut
  /\ Mount(Landing(session), session)
  /\ UNCHANGED <<session, stored, live, timer, reloading>>

\* A router.push that was put off: after signing in, or 900 ms after investing.
Push ==
  /\ timer # None
  /\ Mount(timer, session) /\ timer' = None
  /\ UNCHANGED <<session, stored, live, reloading>>

\* A link of the shell, or of the page if it is shown.
Follow ==
  /\ FewLeftBehind /\ session # SignedOut /\ page \notin AuthRoutePages
  /\ \E p \in Shell(page) \cup
              (IF page # "/" /\ LetsIn(page, session) THEN Links(page) ELSE {}) :
       p # page /\ Mount(p, session)
  /\ UNCHANGED <<session, stored, live, timer, reloading>>

ToRegister ==
  /\ page = "/login"
  /\ Mount("/register", session)
  /\ UNCHANGED <<session, stored, live, timer, reloading>>

SwitchTab ==
  /\ FewLeftBehind /\ session # SignedOut /\ page \notin Unguarded /\ LetsIn(page, session)
  /\ \E tabs \in Tabs : \E p \in tabs \ {page} :
       /\ page \in tabs /\ page' = p
       /\ asked' = [h \in Mounted(p, session) |-> IF h \in DOMAIN asked THEN asked[h] ELSE Fresh]
       /\ late' = IF \E h \in DOMAIN asked \ Mounted(p, session) : Flying(h)
                  THEN late \cup {"this"} ELSE late
  /\ UNCHANGED <<session, stored, live, write, timer, reloading>>

\* The user types an address, or loads the page again, once the tab is at rest.
Load(p) ==
  /\ ~AnyFlying /\ write = NoWrite /\ late = {} /\ timer = None /\ ~reloading
  /\ LoadPage(p)

----------------------------------------------------------------------------
(* The queries.                                                            *)
Ask(h, entry) ==
  /\ asked' = [asked EXCEPT ![h] = entry]
  /\ UNCHANGED <<page, session, stored, live, write, timer, late, reloading>>

\* JwtAuthGuard, RolesGuard and the handler.
Serve(h) ==
  /\ asked[h].fetch = "sent"
  /\ Ask(h, [asked[h] EXCEPT !.seen = {},
                             !.fetch = IF ~live THEN "refused"
                                       ELSE IF Admits(Reached(Hooks[h].call), session)
                                       THEN "answered" ELSE "denied"])
Receive(h) ==
  /\ asked[h].fetch = "answered"
  /\ Ask(h, [data |-> "some", fetch |-> "no", missed |-> asked[h].seen, seen |-> {}])

\* An answer that says no, or none at all: not asked again (retry: false).
Fail(h) ==
  /\ asked[h].fetch \in {"sent", "denied"}
  /\ Ask(h, [asked[h] EXCEPT !.data = "none", !.fetch = "no", !.missed = {}])
Refused(h) ==
  /\ asked[h].fetch = "refused"
  /\ SessionEnds
  /\ asked' = [asked EXCEPT ![h].fetch = "no", ![h].data = "none", ![h].missed = {}]
  /\ UNCHANGED <<write, late>>

\* An answer nobody waits for any more.
LateAnswer ==
  /\ \E whose \in late : (whose = "former" \/ live) /\ late' = late \ {whose}
  /\ UNCHANGED <<page, session, stored, live, asked, write, timer, reloading>>
LateRefusal ==
  /\ \E whose \in late : (whose = "former" \/ ~live) /\ late' = late \ {whose}
  /\ SessionEnds
  /\ UNCHANGED <<asked, write>>

----------------------------------------------------------------------------
(* The writes (useMutation).                                               *)
Submit ==
  /\ write = NoWrite /\ session # SignedOut /\ page \notin Unguarded /\ LetsIn(page, session)
  /\ \E m \in Offered(page, session) :
       write' = [calls |-> m.calls, keys |-> m.keys, state |-> "sent", old |-> FALSE,
                 to |-> IF m.calls = <<"invest">> THEN "/portfolio" ELSE None]
  /\ UNCHANGED <<page, session, stored, live, asked, timer, late, reloading>>

\* What is shown, and what is read but not received, misses this write.
Misses(entry, tables) ==
  [entry EXCEPT !.missed = IF entry.data = "none" THEN {} ELSE @ \cup tables,
                !.seen = IF entry.fetch = "answered" THEN @ \cup tables ELSE {}]
ServeWrite ==
  /\ write.state = "sent" /\ live
  /\ write' = [write EXCEPT !.calls = Tail(@),
                            !.state = IF Len(write.calls) = 1 THEN "done" ELSE "sent"]
  /\ asked' = [h \in DOMAIN asked |->
                 Misses(asked[h], Reads(h) \cap Reached(Head(write.calls)).writes)]
  /\ UNCHANGED <<page, session, stored, live, timer, late, reloading>>
RefuseWrite ==
  /\ write.state \in {"sent", "left"} /\ (write.old \/ ~live)
  /\ SessionEnds
  /\ write' = NoWrite
  /\ UNCHANGED <<asked, late>>

\* onError: nothing is invalidated, not even after the first of two calls.
FailWrite ==
  /\ write.state = "sent"
  /\ write' = NoWrite
  /\ asked' = [h \in DOMAIN asked |->
                 [asked[h] EXCEPT !.data = IF asked[h].missed = {} THEN @ ELSE "none",
                                  !.missed = {}, !.seen = {}]]
  /\ UNCHANGED <<page, session, stored, live, timer, late, reloading>>

\* invalidateQueries: the queries mounted under a key are asked again, and an
\* answer already on its way to one of them is thrown away.
Under(keys, h) == \E key \in keys : IsPrefix(key, Hooks[h].key)
AskAgain(hooks) ==
  /\ asked' = [h \in DOMAIN asked |->
                 IF h \in hooks THEN [asked[h] EXCEPT !.fetch = "sent", !.seen = {}] ELSE asked[h]]
  /\ late' = IF \E h \in hooks : Flying(h) THEN late \cup {"this"} ELSE late
  /\ timer' = IF write.to = None THEN timer ELSE write.to
  /\ write' = NoWrite
  /\ UNCHANGED <<page, session, stored, live, reloading>>
WriteDone == write.state = "done" /\ AskAgain({h \in DOMAIN asked : Under(write.keys, h)})
\* onSuccess of a write whose page was left; its keys are no longer told apart.
LeftWriteDone ==
  /\ write.state = "left" /\ (write.old \/ live)
  /\ \E hooks \in SUBSET DOMAIN asked : AskAgain(hooks)
LeftWriteFails ==
  /\ write.state = "left" /\ write' = NoWrite
  /\ UNCHANGED <<page, session, stored, live, asked, timer, late, reloading>>

----------------------------------------------------------------------------
Init ==
  /\ page = "/login" /\ session = SignedOut /\ stored = SignedOut /\ live = TRUE
  /\ asked = <<>> /\ write = NoWrite /\ timer = None /\ late = {} /\ reloading = FALSE

Paths == Unguarded \cup DOMAIN AllPages

ASSUME TabAssumption == None \notin Paths

Session == (\E claims \in Tokens : SignIn(claims)) \/ Register \/ LogOut \/ Expire \/ Reload
Moving  == Redirect \/ LeaveHome \/ Push \/ Follow \/ ToRegister \/ SwitchTab
             \/ (\E p \in Paths : Load(p))
Asking  == (\E h \in DOMAIN asked : Serve(h) \/ Receive(h) \/ Fail(h) \/ Refused(h))
             \/ LateAnswer \/ LateRefusal
Writing == Submit \/ ServeWrite \/ RefuseWrite \/ FailWrite \/ WriteDone
             \/ LeftWriteDone \/ LeftWriteFails
Next    == Session \/ Moving \/ Asking \/ Writing

\* The browser hands on the answers that arrive and carries out its reloads; the
\* user need do nothing.
Spec ==
  /\ Init /\ [][Next]_vars
  /\ WF_vars(\E h \in DOMAIN asked : Refused(h)) /\ WF_vars(LateRefusal) /\ WF_vars(Reload)

----------------------------------------------------------------------------
\* A user who stays on a page sees what he did there: once nothing is on its way,
\* no query the page shows was read before one of the page's own writes that
\* succeeded.  Each page must invalidate every key it mounts whose tables its
\* writes change, whatever order the reads, the write and the answers take; the
\* page an investment leaves is not at rest.  One thing is not promised: the
\* names of categories in the staff directory, which a rename does not refresh
\* (admin/platform/page.tsx:135).
AtRest == ~AnyFlying /\ write = NoWrite /\ timer = None /\ ~reloading
OwnWritesShown ==
  AtRest => \A h \in DOMAIN asked : asked[h].data = "some" => asked[h].missed \subseteq {"holders"}

\* A page offers and asks only what the API grants to the users RequireRole lets
\* in: no button answers 403 and no view stays on "Loading...".  The statements
\* on an investor's page are the exception: they are refused to two of the roles
\* the page admits (investor-reports.controller.ts:10, admin/investors/[id]/page.tsx:77).
OnlyWhatIsGranted ==
  /\ \A h \in DOMAIN asked :
       asked[h].fetch = "denied" => page = "/admin/investors/id" /\ h = StatementTab["investor"]
  /\ write.state = "sent" =>
       \A i \in DOMAIN write.calls : Admits(Reached(write.calls[i]), session)

\* A session the API has refused ends: whatever the user does meanwhile, the tab
\* comes to hold no user or to ask for a new sign-in, "instead of leaving every
\* page stuck on Loading forever" (api-client.ts:84-87).
RefusedSessionEnds ==
  (\E h \in DOMAIN asked : asked[h].fetch = "refused")
    ~> (session = SignedOut \/ page = "/login")
=============================================================================
