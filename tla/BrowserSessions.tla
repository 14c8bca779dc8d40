---------------------------- MODULE BrowserSessions ----------------------------
(***************************************************************************)
(* The browser sessions of a device (vor-browser's BrowserSessionWorker    *)
(* and BrowserBridge).  Every operation is approved by a signature and     *)
(* served under the dispatcher's lock; Firefox and its driver go on by     *)
(* themselves, and a call to them may fail after it has had its effect.    *)
(* A session's id is the digest of the request that started it.            *)
(***************************************************************************)
EXTENDS Naturals, FiniteSets

CONSTANTS
    Ids,            \* digests of requests to start a session
    Owners,         \* [organization, actor, device, workspace]
    Files,          \* names of downloads
    None,
    MaxPages,       \* bound: documents that are loaded
    MaxCalls,       \* bound: operations
    MaxFaults       \* bound: calls that fail

VARIABLES
    roots,          \* the ids that have a directory below lab_root
    sessions,       \* [id -> its session, or None]: see Session
    driver,         \* the ids whose geckodriver is running
    dir,            \* [id -> [file -> None, or [part, at]: the call at which it appeared]]
    started,        \* the ids that have been used
    pages, calls, faults,   \* counters of the bounds
    call,           \* the dispatcher's call: a download that is waited for, or another one
    views,          \* history: [id, owner, generation, page, steady] that observe answered
    clicks,         \* history: [id, owner, generation, page, steady] of clicks
    receipts,       \* history: [op, at, part] of downloads
    closed          \* history: the ids that were told to be closed
vars == <<roots, sessions, driver, dir, started, pages, calls, faults, call,
          views, clicks, receipts, closed>>
history == <<views, clicks, receipts, closed>>

\* steady: since the generation was last counted, the document has been replaced
\* by nothing but what that generation stands for.
Session(owner) ==
    [owner |-> owner, generation |-> 0, page |-> 0, steady |-> TRUE,
     close |-> "open"]
NoneAssumption ==
    /\ None \notin [owner : Owners, generation : Nat, page : Nat, steady : BOOLEAN,
                    close : {"open", "unconfirmed"}]
    /\ None \notin [part : BOOLEAN, at : Nat]
Idle == [kind |-> "idle"]
NoFiles == [f \in Files |-> None]

Init ==
    /\ roots = {} /\ sessions = [id \in Ids |-> None] /\ driver = {}
    /\ dir = [id \in Ids |-> NoFiles] /\ started = {}
    /\ pages = 0 /\ calls = 0 /\ faults = 0
    /\ call = Idle
    /\ views = {} /\ clicks = {} /\ receipts = {} /\ closed = {}

Call == call = Idle /\ calls < MaxCalls /\ calls' = calls + 1
Fault == faults < MaxFaults /\ faults' = faults + 1

-----------------------------------------------------------------------------
(* start_session                                                           *)

\* The directory is made, the driver started and the session asked for; when
\* that fails the driver is killed and the directory removed, if it can be.
\* The digest of a request that is approved once comes once.
Start(id, owner) ==
    /\ Call /\ id \notin started /\ started' = started \cup {id}
    /\ \/ /\ roots' = roots \cup {id} /\ driver' = driver \cup {id}
          /\ sessions' = [sessions EXCEPT ![id] = Session(owner)]
          /\ UNCHANGED faults
       \/ Fault /\ UNCHANGED <<roots, driver, sessions>>
       \/ /\ faults + 1 < MaxFaults /\ faults' = faults + 2
          /\ roots' = roots \cup {id} /\ UNCHANGED <<driver, sessions>>
    /\ UNCHANGED <<dir, pages, call, history>>

\* session_mut: the session of this id and owner, open for what it is asked.
Mine(id, owner) == sessions[id] # None /\ sessions[id].owner = owner
Open(id, owner) == Mine(id, owner) /\ sessions[id].close = "open"

\* A document is loaded in a session.
Load(id, counted) ==
    /\ pages < MaxPages /\ pages' = pages + 1
    /\ sessions' = [sessions EXCEPT ![id].page = pages', ![id].steady = counted,
                                    ![id].generation = IF counted THEN @ + 1 ELSE @]

\* Mutant of Navigate: the generation is left as it is.
NavigateUncounted(id, owner) ==
    /\ Call /\ Open(id, owner)
    /\ pages < MaxPages /\ pages' = pages + 1
    /\ sessions' = [sessions EXCEPT ![id].page = pages']
    /\ UNCHANGED <<roots, driver, dir, started, faults, call, history>>

\* navigate: only within the allowed origin; the generation is counted when the
\* driver has answered.  Firefox may have loaded the page when that fails.
Navigate(id, owner) ==
    /\ Call /\ Open(id, owner)
    /\ \/ Load(id, TRUE) /\ UNCHANGED faults
       \/ Load(id, FALSE) /\ Fault
       \/ Fault /\ UNCHANGED <<pages, sessions>>
    /\ UNCHANGED <<roots, driver, dir, started, call, history>>

\* observe
Observe(id, owner) ==
    /\ Call /\ Open(id, owner)
    /\ views' = views \cup {[id |-> id, owner |-> owner, generation |-> sessions[id].generation,
                             page |-> sessions[id].page, steady |-> sessions[id].steady]}
    /\ UNCHANGED <<roots, sessions, driver, dir, started, pages, faults, call,
                   clicks, receipts, closed>>

\* find_css and click: a click may load another document, of any origin.
Clicked(id, owner) ==
    /\ clicks' = clicks \cup {[id |-> id, owner |-> owner, generation |-> sessions[id].generation,
                               page |-> sessions[id].page, steady |-> sessions[id].steady]}
    /\ \/ UNCHANGED <<sessions, pages>>
       \/ Load(id, FALSE)

\* click: with the generation that an observation gave.
Click(id, owner, generation) ==
    /\ Call /\ Open(id, owner)
    /\ generation = sessions[id].generation
    /\ Clicked(id, owner)
    /\ UNCHANGED <<roots, driver, dir, started, faults, call, views, receipts, closed>>

\* A document replaces another by itself: a script, a timer, a refresh.
PageChanges(id) ==
    /\ sessions[id] # None /\ sessions[id].close = "open"
    /\ Load(id, FALSE)
    /\ UNCHANGED <<roots, driver, dir, started, calls, faults, call, history>>

-----------------------------------------------------------------------------
(* download                                                                *)

\* prepare_download: neither the file nor its part is there yet; then the click,
\* and the wait begins.
Download(id, owner, file, generation) ==
    /\ Call /\ Open(id, owner)
    /\ generation = sessions[id].generation
    /\ dir[id][file] = None
    /\ call' = [kind |-> "download", id |-> id, op |-> calls', file |-> file]
    /\ Clicked(id, owner)
    /\ UNCHANGED <<roots, driver, dir, started, faults, views, receipts, closed>>

\* Firefox writes a part for some click, and names it when it is whole; also
\* when nobody waits for it any more.
Arrives(id, file) ==
    /\ sessions[id] # None /\ clicks # {}
    /\ dir[id][file] = None
    /\ dir' = [dir EXCEPT ![id][file] = [part |-> TRUE, at |-> calls]]
    /\ UNCHANGED <<roots, sessions, driver, started, pages, calls, faults, call, history>>
Completes(id, file) ==
    /\ sessions[id] # None
    /\ dir[id][file] # None /\ dir[id][file].part
    /\ dir' = [dir EXCEPT ![id][file].part = FALSE]
    /\ UNCHANGED <<roots, sessions, driver, started, pages, calls, faults, call, history>>

\* complete_download: there is a file and no part.
Receive(id) ==
    /\ call.kind = "download" /\ call.id = id
    /\ LET file == call.file IN
       /\ dir[id][file] # None /\ ~dir[id][file].part
       /\ receipts' = receipts \cup {[op |-> call.op, at |-> dir[id][file].at,
                                    part |-> dir[id][file].part]}
    /\ call' = Idle
    /\ UNCHANGED <<roots, sessions, driver, dir, started, pages, calls, faults, views, clicks, closed>>

\* Ten seconds are over.
DownloadTimeout(id) ==
    /\ call.kind = "download" /\ call.id = id
    /\ call' = Idle
    /\ UNCHANGED <<roots, sessions, driver, dir, started, pages, calls, faults, history>>

-----------------------------------------------------------------------------
(* close                                                                   *)

\* The driver confirms: the session leaves the table with its driver, and its
\* directory is removed, if it can be.
Close(id, owner) ==
    /\ Call /\ Open(id, owner)
    /\ \/ /\ sessions' = [sessions EXCEPT ![id] = None]
          /\ driver' = driver \ {id}
          /\ \/ roots' = roots \ {id} /\ dir' = [dir EXCEPT ![id] = NoFiles]
                /\ closed' = closed \cup {id} /\ UNCHANGED faults
             \/ Fault /\ UNCHANGED <<roots, dir, closed>>
       \/ /\ Fault
          /\ sessions' = [sessions EXCEPT ![id].close = "unconfirmed"]
          /\ UNCHANGED <<driver, roots, dir, closed>>
    /\ UNCHANGED <<started, pages, call, views, clicks, receipts>>

Next ==
    \/ \E id \in Ids, owner \in Owners :
          \/ Start(id, owner) \/ Navigate(id, owner) \/ Observe(id, owner) \/ Close(id, owner)
          \/ \E v \in views :
                \/ Click(id, owner, v.generation)
                \/ \E file \in Files : Download(id, owner, file, v.generation)
    \/ \E id \in Ids :
          \/ PageChanges(id) \/ Receive(id) \/ DownloadTimeout(id)
          \/ \E file \in Files : Arrives(id, file) \/ Completes(id, file)

Spec == Init /\ [][Next]_vars

-----------------------------------------------------------------------------
(* Properties.                                                             *)

\* A click is on the document that was observed with its generation, for the
\* session's own owner, as long as no document has taken its place without a
\* navigation that was answered: those the generation does not count (navigate,
\* observe and click; a click, a script or a lost answer replaces a document, too).
SeenIsClicked ==
    \A c \in clicks, v \in views :
        c.id = v.id /\ c.generation = v.generation =>
            /\ c.owner = v.owner
            /\ c.steady /\ v.steady => c.page = v.page

\* A receipt is for a file that was whole, and that was not there when the
\* download was asked for (prepare_download, against files that arrive late; it
\* may still come from an earlier click).
ReceiptIsNew ==
    \A r \in receipts : ~r.part /\ r.at >= r.op

\* A driver runs for a session in the table and for no other; a directory without
\* a session, and a session that can neither be used nor closed, have a fault to
\* account for them; what was told to be closed has left nothing.
BrowserLeavesNothing ==
    /\ driver = {id \in Ids : sessions[id] # None}
    /\ driver \subseteq roots
    /\ Cardinality(roots \ driver) + Cardinality({id \in driver : sessions[id].close # "open"}) <= faults
    /\ closed \cap (roots \cup driver) = {}
=============================================================================
