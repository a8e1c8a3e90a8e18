# Verification of the Spotify Remote Web Player

This directory models and checks the Spotify Remote Web Player: a C program that
logs in to Spotify with libspotify, plays the songs of one playlist through the
sound card, and lets browsers search, start, add and remove songs over HTTP, and
the page that runs in those browsers. The sources are `src/backend/Linux` and
`src/frontend/js`; `src/backend/OSX` is a copy of the former with other headers
and another sound output.

## 1. Inventory

| Part | Code | State | Operations |
|---|---|---|---|
| audio fifo | `audio.h`, `audio.c`, `music_delivery` in `sp-callbacks.c` | list `q`, counter `qlen`, mutex, condition | `music_delivery`, `audio_get`, `audio_fifo_flush` |
| sound output | `alsa-audio.c` (`openal-audio.c` on OSX) | the open device and its format; the three buffers and their count | the loop of the audio thread |
| jukebox | `jukebox.c`, `playlist-callbacks.c`, `container-callbacks.c`, `globals.c` | `g_playlist`, `g_track_index`, `g_currenttrack`, `g_playback_done` | `try_jukebox_start`, `change_track`, `load_playlist`, playlist, container and session callbacks |
| web server | `ws-callbacks.c`, `requests.c`, `server.c` | `search_mutex`, `playlist_mutex`, `s_request`, registered handlers | `handle_request`, one handler per path, the callbacks that answer later |
| event loop | `ws-callbacks.c` | timer and async event | `process_events`, `sigint_handler`, `notify_main_thread` |
| session life cycle | `main.c`, `helper.c`, `sp-callbacks.c` | `struct state` | `main`, `logged_in`, `bind_webserver`, `logged_out` |
| tail queue | `queue.h` | `tqh_first`, `tqh_last`, `tqe_next`, `tqe_prev` | `TAILQ_INIT`, `TAILQ_INSERT_TAIL`, `TAILQ_FIRST`, `TAILQ_REMOVE` |
| JSON | `json.c` | none | conversions; the numbered list of songs of an answer |
| browser client | `frontend/js` | each list twice, as rows and as an array; the suggestion, the open menu | clicks, their requests, and what the answers do |

How they interact. Three threads run. The *main* thread is libevent's loop: it
calls `handle_request` for each HTTP request and `process_events`, inside which
libspotify makes every callback except two. *libspotify's own thread* calls
`music_delivery` and `notify_main_thread`; the latter activates an event so that
`process_events` runs. The *audio* thread takes chunks from the fifo and writes
them to the sound card. The main thread flushes the fifo when the track changes.
Browser requests change the jukebox directly (`change_track`) or through
libspotify, whose playlist callbacks then run `try_jukebox_start`. A page sends
its requests without waiting, so that they and their answers overtake each other.

What is hard, and what makes each part correct:

* **Audio fifo.** Three threads, one mutex, one condition, and a counter that is
  reset by one of them. No frame may be lost, doubled or reordered; the counter
  has to agree with the list whenever another thread can look; the audio thread
  may not sleep on work; libspotify's thread may not be held up for ever.
* **Jukebox.** A dozen callbacks and requests change four globals and the player
  of libspotify. The song that plays has to be the one at `g_track_index`, after
  any sequence of edits; edits elsewhere may not interrupt it; its end or its
  removal has to lead to another one; short and empty lists are edge cases.
* **Web server.** Answers are sent by callbacks, through globals, long after the
  handler returned; mutexes are locked by the one and unlocked by the other, on
  the same thread. Each request has to get at most one answer, its own, and
  nothing may be forgotten; and the thread should never wait for itself.
* **Life cycle.** The login, SIGINT, a socket that cannot be bound, the end of the
  loop and the freeing of its events meet libspotify's thread, which may wake
  the loop at any time. The server has to act upon the answer to its login, to
  log out before it ends, and to end when it should.
* **Tail queue.** Pointers to pointers, in cells that are freed by one thread and
  handed to another; a stale one corrupts the list much later. At every moment they
  have to describe the list, in both directions and at its end.
* **Sound output.** A change of song is three calls of one thread while two others
  deliver and play, with a device that runs dry and formats that change. Songs must not
  be mixed, the old one has to end soon, the device has to fit each chunk, the new song
  has to be heard. On OSX three buffers go round between the thread and OpenAL.
* **Browser client.** Indices mean something only in the list they were taken from,
  and both the page's lists and the server's playlist change under them.

## 2. Modules

| Module | What it is |
|---|---|
| `SampleStream` | abstract: what the fifo promises to libspotify and to the player |
| `Exchange` | abstract: what the web server promises to its browsers |
| `AudioFifo` | the fifo with its three threads; refines `SampleStream` |
| `Lifecycle` | the server from start to end: session, event loop, signals, teardown |
| `Jukebox`, `MCJukebox` | the jukebox, its callbacks, the autoplay and the requests; `MCJukebox` adds the symmetry of the tracks |
| `Webserver` | the routed requests and their answers; refines `Exchange` |
| `TailQueue` | the pointers of `queue.h` under `AudioFifo`'s list |
| `Playback` | the fifo composed with the jukebox's calls and the ALSA loop |
| `OpenAlPlayer` | the audio thread of the OSX backend and its OpenAL source |
| `Frontend`, `MCFrontend` | pages, requests and answers on their way, and the server's playlist; `MCFrontend` adds a catalogue and the symmetry of the pages |
| `AudioFifo_proofs`, `TailQueue_proofs`, `Playback_proofs`, `OpenAlPlayer_proofs`, `Jukebox_proofs`, `Webserver_proofs`, `Lifecycle_proofs`, `Frontend_proofs` | theorems about these modules, checked by TLAPS |

How they fit together: `TailQueue` and `Playback` EXTEND `AudioFifo` and conjoin their
own variables to its actions, so the theorems about the fifo hold of both; `AudioFifo`
implements `SampleStream`, and `Webserver` implements `Exchange`. `Jukebox` and
`Playback` share the calls of the jukebox to the player: the former decides which track,
the latter what is heard. `Webserver`, `Jukebox` and `Frontend` see the same request
from three sides: who waits for its answer, what it does to the song, and what the
browser that sent it meant.

Definitions named `Bug_...` are variants of the definition that follows them,
with a mistake that a change of the code could make. No specification uses
them; they show that each property would notice the mistake.

### AudioFifo

A step is what one thread does between two points where another thread can see
a difference: taking the mutex, the change of list and counter, the signal, the
wait, the release. `pc` says where each thread is. A chunk is its position in
the stream of frames that `music_delivery` accepted and its length `nsamples`;
the samples themselves do not matter to any property. `produced` and `out` are
history: the frames accepted, and the first frame neither taken nor flushed.
`pthread_cond_wait` may return without a signal (`AudioSpuriousWakeup`), and
the mutex may go to any thread that wants it. `audio_fifo_flush` unlinks one
chunk per step and resets `qlen` in its last one.

Checked (run `fifo`, of the module `TailQueue`): the stream is whole (`StreamIntact`),
the counter is exact outside a flush (`QlenExact`), the backlog stays below one second
and one delivery (`BoundedBacklog`), no lost wakeup (`NoLostWakeup`), each thread that
is inside, or that finds the mutex free, has a step to take (`ThreadsGoOn`), and
refinement of `SampleStream`, in which a flush is one atomic step that happens when the
flush gets the mutex; also that every accepted frame is played or flushed
(`FramesDrain`) and that the calls return (`CallsReturn`).

Bounds: one second is 1 frame instead of 44100, a delivery has up to 2, and 6
frames are offered in all. The fifo then reaches its limit, refuses,
overshoots, is drained and flushed several times over; a longer run repeats the
same configurations at later positions, and the theorems below have no bound.

Fairness: each thread that can take its next step takes it (weak fairness), and
a thread that finds the mutex free again and again gets it (strong fairness of
the three lock steps). POSIX leaves the choice to the scheduler; without it one
thread could lock out another for ever, which the mutexes in use do not do. There
is no fairness for a new delivery, a new flush or a spurious wakeup.

### TailQueue

`AudioFifo` sees a sequence; here the macros write pointers. `next` is `tqe_next`
of each cell and, at `Head0`, `tqh_first`; `prev` and `last` hold the address of
such a pointer, as `tqe_prev` and `tqh_last` do. `malloc` may return any cell that
is neither in the list nor in the hand of the audio thread, with whatever was left
in it. `cells` is history: the list that the pointers should describe, which is what
`PointersRepresentQueue` states. Three cells are enough for the bounds of the fifo
(two chunks wait while the third is played), so a new chunk is never put off for lack
of one, and each is used several times.

### Playback

The way of a song to the room, across the three threads. The jukebox's calls come one at
a time, in the order of the code: `try_jukebox_start` flushes, unloads and loads;
`change_track` unloads and loads and does not flush; losing the play token or the end of
a track calls less. Songs are numbered as they are loaded; `songs` and `hand` say which
one each chunk comes from. The device is opened for the format of a chunk (`h`), waited
for (`ready`) and written to; it may run dry at any time, and `snd_pcm_writei`, whose
result nobody reads, then plays nothing. A device that cannot be opened ends the process
(`alive`). `GetReady` takes the open, the wait and `snd_pcm_prepare` together, and
assumes that the latter repairs an underrun: a prepare that fails, and what else ALSA
may report, are left out.

Run `playback`: no frame of a song comes after one of a later song (`SongsInOrder`), the
sound card is given at most a second and three deliveries of a song after its unload
(`DelayBounded`: the chunk in the hand of the audio thread, what waits, and the delivery
in progress; what the device still holds in its own buffer comes on top), the device
fits each chunk and an underrun costs at most one (`CardKeepsUp`), and a song that is
loaded is heard or replaced (`NewSongHeard`). Bounds: one second and one delivery are 1
frame, 5 frames, two songs of two formats, one underrun. Two songs are what an order of
songs is about; the frames suffice for a chunk in the hand, one in the list and one
being delivered at the moment of the change. The first song always has the format
`FirstFormat`: which one it has makes no difference, only whether the second has the
same. Fairness: that of the fifo for a server that lives, and that libspotify goes on
offering a refused delivery (api.h: "The library will retry delivery") and the jukebox
makes the calls it has begun.

### OpenAlPlayer

The thread of `openal-audio.c` fills three buffers, starts the source, and then
polls, unqueues, compares the format, fills and queues one buffer after another;
when the format changes it empties the source and begins again. `frame` is the
unsigned counter that indexes the array, modulo `FrameWrap`. What OpenAL does is
taken from its specification and from how the code uses it, at the head of the module:
a source that has run dry stops and is started by `alSourcePlay` only, and a refusal
reaches nobody, since the thread reads `alcGetError`.

Run `openal`: until OpenAL refuses a buffer, they go round in order and the chunks play
in the order of the fifo (`BuffersGoRound`); a buffer is removed unplayed only after the
queue ran dry (`SkipsOnlyWhenDry`); a thread that polls has a processed buffer to take
or a source that plays one (`PollIsFed`), and the poll ends (`PollEnds`). Chunks come
one after the other from a fifo that always has one: 12 of them, of two formats, give
four rounds of the buffers, with resets at every place. `FrameWrap` is larger than the
number of chunks: the wrap at 2^32, after which `frame % 3` would jump, is about three
years of music away and out of the model (`OpenAlAssumption`). Fairness: the thread runs
and the card plays.

### Jukebox

All of it runs on the main thread, so an action is one callback or one request
from beginning to end. `Globals` and `Become` turn the globals into a record and
back, so that `TryStart` (`try_jukebox_start`), `ChangeTrack` (`change_track`)
and `PickAnother` (the random loops) are operators that handlers compose as the
code calls them. libspotify is external: `list`, `named`, `container`,
`watched` (who calls back), `loaded` (metadata) and `player`. It changes a
playlist and calls back in one step, for edits of others and for our own;
several tracks are removed at once, but inserted and moved one at a time. The
ends that the code can come to are in `status`: "crashed" for the division by
zero and for `sp_playlist_num_tracks(NULL)`, "spinning" for a loop that cannot
end, "misread" for a request without its argument (`MissingArgument`: nothing refuses
/start, /remove and /add with nothing behind them, and `atoi` gets a NULL). The random
loop otherwise ends with any other index. `array_id`s are whatever `atoi` may return,
bounded to -`MaxIndex`..`MaxIndex`: negative, in the list, at its end or beyond it.
`CRem` is C's `%`, whose result is negative for a negative index.

Runs: `jukebox_lists` has two playlists of up to 2 of 2 tracks, which gain and lose the
jukebox's name and come and go; `jukebox_song` one playlist of up to 3 of 3 tracks, one
of which the player refuses, so that removals on both sides of the song and of two
tracks at once occur, and also the liveness of the autoplay (hence no symmetry there): a
song that has ended can always be followed by another one (`MusicIsDue`), and is
(`MusicContinues`). The callbacks distinguish no more than before, at and after the
index, and this playlist or another, which these sizes cover. Fairness: only that
`process_events` keeps running (its timer is re-armed in every call, and `end_of_track`
comes from inside it) and that the login goes on. The server really may stop, in
"crashed", "spinning" and "misread", so deadlock is not checked. `CurrentIsIndexed`
looks at every index that `try_jukebox_start` lets pass, those that are negative or
equal to the length of the list included, for which nothing may play.

`Healthy` names the premise under which the code does what one would expect:
the playlist of the URI is the one that is played, it has two tracks, and all
of them can be played. What happens without it is in the findings.

### Webserver

One action per handler and per callback. `searches`, `handlers` and `posts` are the
operations under way in libspotify; `replies` counts the calls of `evhttp_send_reply`
per request; `answer` is what the browser receives, nothing if its connection is gone. A
handler that locks a mutex that is held stops the main thread, the only one that could
unlock it: `main` is then the request, and nothing happens any more, which is why
deadlock is not checked. `json_mutex` is locked and unlocked inside `send_reply_json`
and cannot be met twice. The effect of /start, /remove and /add is Jukebox's: here they
are either done at once (`EditRequest`), or they crash or loop for ever with the mutex
locked (`FatalEdit`), for one of the reasons that the jukebox knows of. A /search with
nothing behind it hands a NULL on to libspotify (`Empty`), which may crash or never call
back. `p_request` is only passed on at once and is left out. Waiting requests of one
source are answered in one step: the callbacks of one event run one after the other with
nothing between them.

Run `web`: 3 requests of any kind, a query and the empty one (a mutex needs a holder, a
second request that meets it, and one that passes by). At most one answer and the right
one (`ImplementsExchange`: all the handlers, mutexes, globals and callbacks together
take only the steps of `Exchange`), mutexes locked exactly while somebody is about to
unlock them, or an edit never ends (`MutexMatchesPending`), nothing forgotten
(`NothingForgotten`), the callback that a request waits for can always run
(`AnswersAreDue`), and all requests that wait are answered in the end (`AnswersCome`),
unless their search fails or is for nothing, or the main thread stops. Fairness:
libspotify completes each post and some search for something as long as there is one,
and for each source that has been loaded the callback runs; in the model none of these
steps can be taken while the main thread is stuck.

### Frontend

A page keeps each list twice, as rows with ids and as an array that the ids index. Every
click is an action that sends a request; `requests` and `answers` are sets, so they
arrive in any order, and `Lose` drops any of them, after which the callback of
`$.getJSON` never runs. The context menu stays open while answers replace the list under
it. The server handles one request per step, on one playlist for all pages, and other
pages change it. `said` and `seen` travel with a request as history: what the page
showed when it was clicked, and in which version of the playlist. /remove and /start
treat an index differently: libspotify refuses one that is not in the list (`SongAt`),
`change_track` wraps it (`SongStarted`). `up` is whether the server still runs: /start
on an empty list ends it, and so may the removal of the only song.

Run `frontend`: the rows and the arrays of a page stay one list (`RowsMatchSongs`); what
is announced as added is what is added (`AddedIsAnnounced`); a pick from a list that is
up to date hits the song whose row it names, leaves one and does not stop the server
(`FreshPickHits`, `FreshRemovalKeepsOne`). A menu that is left open while the list under
it becomes shorter names no row any more: its /remove hits nothing, and its /start plays
some song, which the property sets apart. Two pages (interchangeable), two songs, two
queries of which one suggests the other, and four requests: enough to show a list, to
open its menu, to replace it by another answer, and to change the playlist from the
other page in between. No liveness: any request may be lost. A run can end with nothing
on its way and nothing left to send, so deadlock is not checked.

### Lifecycle

`main` says where the main thread is: starting, in libevent's loop, inside
`process_events`, or freeing. `login` is libspotify's side, from the call of
`sp_session_login` to the callback `logged_out`. Each `event_free` is a step of
its own, for `notify_main_thread` may come between any two. `process_events` does
not return while a callback of the login is due; other callbacks are in the other
modules. The loop ends when it is broken, and also when no event is left that it
could wait for (`LoopRunsDry`): none has been added before the first
`process_events`, so a server whose libspotify has not called
`notify_main_thread` by then ends at once. `state->session` and `state->http` are
unset memory until `logged_in`; `UseInvalid` is the choice between a crash and no
effect. SIGINT without the handler ends the process (`Killed`).

Run `lifecycle`: the server logs out before it ends (`LogoutBeforeExit`, which
api.h asks for), a server that has logged in uses nothing unset
(`CrashOnlyEarly`), main can take a step from the login to its end
(`LoopKeepsTurning`), the answer to the login is acted upon once the loop has
started (`LoginIsAnswered`), a logout ends the server (`LogoutEnds`) and so does
a socket that cannot be bound (`UnboundEnds`). The module has no constants; the
run visits all of its states. Fairness: the main thread runs, and the service
answers the login and the logout; signals and `notify_main_thread` are free. The
process does end, so deadlock is not checked.

## 3. Findings

Each is a run that ends in a violation, where the code does not do what a
comment or a document says.

| Run | What the code does |
|---|---|
| `jukebox_token` | playback resumes by itself after the play token was lost (`jukebox.c:73`) |
| `web_block` | the main thread waits for a mutex that only it can release (`requests.c:96,115`) |
| `openal_packet` | the chunk that changes the format is freed before it is copied (`openal-audio.c:108,130`) |
| `frontend_last` | the guard for the last song looks at a list that is stale, or no longer there (`contextMenu.js:21`) |

Two theorems say how far these findings reach: `web_block` needs a browser that sends a
search during a search, or a request for the playlist or a change of it while it loads
(`ConsiderateNeverBlock`, which also excludes what stops the server without a mutex: an
edit that cannot be done, and a search for nothing), and `openal_packet` needs music of
two formats (`OneFormatKeepsPackets`).

The models contain more behaviours of this kind, without a run of their own: no
document clearly speaks against them, or a property would restate one line.

* main frees an event that libspotify's thread may still activate (`main.c:206`,
  `sp-callbacks.c:48`); `CrashOnlyEarly` shows that nothing else goes wrong after
  the login.
* The index after the last track is looked up (`jukebox.c:45`), though api.h:2941 wants
  it in range; libspotify answers with no track.
* With a single track the loop for another index never ends (`requests.c:142`,
  `ws-callbacks.c:32`), and /start on an empty playlist divides by zero
  (`jukebox.c:82`); this is the premise of `SurvivesWithTwoTracks`.
* /start between `end_of_track` and `process_events` is overridden by the autoplay
  (`ws-callbacks.c:27`); /start while nothing plays moves `g_track_index` and starts
  nothing (`jukebox.c:83`).
* A discontinuity does not flush the fifo (`sp-callbacks.c:64`,
  `DeliveryDiscontinuity`), although api.h:479-480 says that the application should
  flush its audio fifos then. What this leaves behind is bounded (`BoundedBacklog`);
  that it is flushed is not claimed, and not true.
* /start, /remove and /add without an argument pass a NULL on
  (`ws-callbacks.c:118-139`); `atoi` of it at `requests.c:103,137` ends the server
  whatever the playlists hold (`MissingArgument`, `FatalEdit`). A negative number for
  /start leaves `g_track_index` negative (`jukebox.c:82`), which passes the test at
  `jukebox.c:45`: nothing plays.
* /search without a phrase hands libspotify a NULL with `search_mutex` locked
  (`requests.c:94-98`); if it is not called back, the next search stops the server.
* A search that fails is never answered (`requests.c:83`, `failed`), nor is a path that
  is not understood (`ws-callbacks.c:141`).
* An OpenAL source that ran dry is not started again before the format changes
  (`openal-audio.c:97`).
* One click on the suggestion sends one search for each time `updateViews` has run: once
  when the page is loaded (`list.js:25`) and once per answer (`requests.js:15`). The
  second one meets `search_mutex` when the first is still under way.
* A page whose list is stale starts or removes another song than it shows. A menu left
  open over a shorter list that is up to date starts a song too, for `contextMenu.js:9`
  sends the id of the row that has gone, and `jukebox.c:82` wraps it.
* The removal of the last song that `frontend_last` shows may also hang the server, when
  that song is the one at `g_track_index` (`requests.c:142`).

## 4. Proofs

The theorems hold for all values of the constants; the assumptions are the named ASSUMEs
of the modules, which TLC evaluates in the runs. What the runs check falls in three
kinds:

* Every safety and action property, and the two refinements, is a theorem without
  further premises.
* `LoginIsAnswered`, `LogoutEnds`, `UnboundEnds`, `PollEnds`, `MusicContinues` and
  `AnswersCome` are theorems under one premise, and `CallsReturn` under two. A step that
  is fair happens when it stays ENABLED, and ENABLED is opaque to the provers. So "the
  step that is due can be taken" is an invariant of its own (`LoopKeepsTurning`,
  `PollIsFed`, `MusicIsDue`, `AnswersAreDue`, `ThreadsGoOn`), which TLC checks in the
  same run, and the theorem reads `Spec /\ []LoopKeepsTurning => LogoutEnds`. The
  premise says only that a step exists; that it stays due until it is taken, that the
  step taken is the one that helps, and that what it leads to does not go back, is what
  is proved.
* Three things are only model-checked. The five invariants with ENABLED are opaque to
  the provers. `FramesDrain`, and the end of a flush (`DrainEnds`, the second premise of
  `CallsReturn`), need an induction over a length under fairness, which the provers
  cannot instantiate; what each of its steps does is proved (`FirstFrameLeaves`,
  `TurnsEnd`). `NewSongHeard` needs the same induction over the frames of the old song.

`AudioFifo_proofs` holds theorems for every `SampleRate`, `MaxFrames` and
`MaxProduced`, from `FifoAssumption` alone (natural numbers, deliveries of at
least one frame possible, `None` is no chunk and no thread):

* `FifoTyped`, `OneThreadInside`, `FifoCorrect` (the stream is whole), `CounterExact`;
* `BacklogBounded` and `NeverSleepsOnWork`;
* `FifoRefines`: the fifo implements `SampleStream`;
* `FirstFrameLeaves`: whichever frame has waited longest is taken or flushed;
* `TurnsEnd`: in the loop of a flush the list becomes shorter again and again until the
  unlock (`FlushShortens`: nobody adds to it meanwhile);
* `CallsComeBack`: given that the flush ends, the calls return (`CallsReturn`).

`FifoTyped` and `OneThreadInside` (one thread at a time is between lock and unlock, and
every path gives the mutex back) need no run of their own.

The argument is the inductive invariant `IInv`. The properties are not inductive by
themselves: the insertion needs `frames # 0` after the first test, the refinement needs
to know when the audio thread has a chunk in hand (`InHand`), and to keep every chunk
between `out` and `produced` when the first one leaves, `Ordered` states for all pairs
of chunks what `StreamIntact` states for neighbours, so that no induction over the list
is needed. `ControlStep` proves the locking discipline, `ContentsStep` the list and the
counter, with one step per action; `DropFirst` and `AddLast` are the two facts about the
list. For the last three theorems, which assume `Spec` and `[]ThreadsGoOn`, each thread
stays where it is until its own step (`DeliveryStays`, `AudioStays`, `MainStays`). From
wherever a thread is inside, it comes to the unlock (`DeliveryFrees`, `AudioFrees`), so
the mutex is free again and again (`MutexComesFree`), which is what the strong fairness
of the lock steps asks for. The frame that has waited longest is either in the list
until a flush or the audio thread takes it (`OldestFlushed`, `OldestTaken`); the latter
may sleep, but then a signal is due (`OldestWakes`).

`TailQueue_proofs`: `ListIsFifo` (every step is one of `AudioFifo`, so `IInv` comes for
free), hence `ListImplementsStream`, `PointersCorrect`, for any set of addresses, and
`ListCallsComeBack`, the calls of the fifo with the pointers in it.
`PointersRepresentQueue` is nearly inductive: an element of the list is neither free nor
in the hand, so the writes of the macros reach only the neighbours they should, and
`tqe_prev` of the first element makes `TAILQ_REMOVE` move `tqh_first`.

`Playback_proofs`: `PlaybackIsFifo`, again a step of `AudioFifo` for each step of the
whole, hence `PlaybackImplementsStream`, and on top of its theorems `NeverMixed`,
`OldSongEnds` and `CardInTime`. The bound
of `OldSongEnds` is not inductive; what is kept is that the frames of unloaded songs
given to the device so far, together with those in the hand of the audio thread, in the
list and in the call in progress, are within it (`Within`): a take or a write moves
frames from one summand to another, a flush drops some.
`PlaybackTyped` ties the two machines of the main thread together: while it is inside
`audio_fifo_flush`, the flush is the call that the jukebox is making (`InFlush`), and a
load is always the last call (`Todo`).

`OpenAlPlayer_proofs`: `BuffersRotate` and `SkipsWhenDry`. The invariant `OInv` adds
that the array never changes before the first refusal (each buffer comes back into the
place it was taken from) and that the queue is the array, rotated to begin at `frame`.
`OneFormatIsTaken` says when that first refusal never comes: while all music has one
format; `OneFormatKeepsPackets`, that then no freed chunk is copied either.
`PollsForSomething` covers also what happens after a refusal, when buffers are missing
from the queue: the thread never polls an empty queue, nor one of processed buffers
only, nor a source that is stopped over buffers that wait. With `PollIsFed` this gives
`PollingEnds`. `PlayerTyped` bounds `frame` by the chunks, below its wrap.

`Frontend_proofs`, for any number of pages, songs and requests and any catalogue:
`FrontendTyped`, `RowsAreSongs`, `AnnouncesWhatItAdds`, `FreshPicksHit` and
`FreshRemovalsKeepOne`. The
invariant relates copies at different places: a request, a page or an answer that
carries the present version of the playlist carries the present playlist.

`Lifecycle_proofs` proves `LogsOutFirst` and `CrashesOnlyEarly` without any assumption.
Its invariant adds that main starts in order (`Early`), that `logged_in` set what is
used later (`SetUp`), that events are freed after the loop only (`FreedLate`), and that
the loop is broken by the end of a login only (`BrokenLate`, `RefusedEnds`). `TInv` adds
the timer: `process_events` sets it in every call and nothing but `event_free` takes it
back, so a loop that could otherwise be woken only by SIGINT or a browser has it
(`LoopIsWoken`). On this rest `LoginEnds`, `SigintEnds` and `UnreachableEnds`, each a
chain of steps that lead to one another: the loop comes back to `process_events`, the
answer breaks the loop, and each `event_free` follows the last. `LoopServes` says that a
logged-in server comes back to `process_events` again and again: it is the reason why
`Jukebox` and `Webserver`, which do not model the loop, may assume fairness of the
autoplay and of libspotify's callbacks.

`Jukebox_proofs` proves `JukeboxTyped`, `PlayerMatches`, `PlaysTheIndexed`,
`TwoTracksSuffice`, `SongsSurviveEdits`, `AutoplayStartsAnother` and `RemovalPlaysOn`
for all playlists, tracks and bounds, from `JukeboxAssumption`. `Good` is "the player
has the track of the jukebox" as a predicate on the record that the operators work on;
each operator preserves it (`UnloadGood` ... `RenamedGood`), and a handler becomes such
a record (`BecomeGood`). `PlaysTheIndexed` needs what the removal of several tracks does
to a list: the k-th track that is kept has k - 1 kept ones before it. That there is
exactly one such position for each k, normally an induction, follows from
`FiniteSetTheorems`: the rank of a kept position is an injection between sets of the
same size, and so onto. The callback subtracts the removed positions before the index,
which is the same count. `TryStartDoes`, `ChangeTrackDoes`, `PickAnotherDoes` and
`RemovedDoes` say what each function of the jukebox does to the globals; the action
properties combine them. `EndsAreNoted` says that between `end_of_track` and
`process_events` no callback and no request takes the flag `g_playback_done` back while
the ended song is still in the player, so that the autoplay finds it; `MusicGoesOn` is
the liveness that follows.

`Webserver_proofs` proves `AnswersAtMostOnce`, `AnswersItsOwn`, `LocksAreOwed`,
`ForgetsNobody` and `LoadedIsWaitedForByNone` (once the playlist has been loaded nobody
waits for it or its mutex, and only a search or a fatal edit can stop the server) for
all sets of requests and queries, from `WebserverAssumption` (finitely many requests;
`NULL`, "loop", the queries and the other answers are different things). The properties
are not inductive alone: the invariant adds that every place in which libspotify keeps a
request belongs to one kind of request and holds only unanswered ones (`SearchOwed`,
`HandlersOwed`, `PostsOwed`), so that no two callbacks find the same request, and that
`s_request` belongs to the only search under way, which is what `search_mutex` is for.
`AnsweredAtOnce` and `LeftForLater` treat the handlers by what they do with the request.
`WebRefines` uses the same invariant step by step: each handler is an `Ask`, answered at
once or not, and each callback an `Answer` to a set of requests that were owed one.
`OnlyTheseStop` says what can stop the server: another search, a playlist that is not
loaded, a search for nothing or an edit that cannot be done, and nothing else: no
callback, no lost connection, no order of the other requests. `ConsiderateNeverBlock`
turns this round: browsers that do none of the four (`Considerate`) never stop it,
whatever else they send or lose. `EveryAnswerComes` takes one request at a time: the
search, the post or the source it waits for stays due until its callback runs, which
answers it; of the searches only one can be under way while the main thread runs.
`ConsiderateAreAnswered` adds that browsers that are considerate in this sense are all
answered, but for searches that fail. Which edits cannot be done is said by `Jukebox`
(`TwoTracksSuffice`: with two tracks, only one without its argument).

## 5. Not modelled

* The callbacks and playlist handlers at `server.c:389-601`: compiled, but no route
  of `handle_request` reaches them. They are why the web server is "partly" modelled,
  and the conversions that only they use why JSON is.
* The layout of JSON, texts, heights and the highlighted row; the options of `alsa_open`
  and of the command line; `syslog` and printing.
* The credentials file and the application key: plain file transfers without state.
* `diff.c` and `port-audio*.c`, which are in no build, and the start script.
* The rest of `backend/OSX`: what is modelled of `backend/Linux` is not repeated.
* The vendored code (libspotify, libevent, jansson, APR, PortAudio, jQuery), most of the
  lines of the repository. libspotify, libevent and OpenAL appear as the environment.
* Memory: allocation failure, and reference counts of libspotify.
* ALSA errors other than underruns, and a `snd_pcm_prepare` that fails.
* A flag that outlives its song: `end_of_track` only sets `g_playback_done`, and a
  `/start` before `process_events` reads it starts a song that the autoplay then
  replaces. The model does this too; the properties speak of the other danger, an end
  that is dropped (`MusicIsDue`, `MusicContinues`), and no document says anything of
  this one.
