----------------------------- MODULE MCPlayback -----------------------------
(* PlaybackController on small instances. *)
EXTENDS PlaybackController

Init0(t, c)  == [kind |-> "init", track |-> t, codec |-> c]
Media0(t, c) == [kind |-> "media", track |-> t, codec |-> c]
Say(k)       == [kind |-> k]
Pcm(n)       == [kind |-> "pcm", at |-> n]
Stream(mode, messages) == [mode |-> mode, messages |-> messages]

Both == <<Init0("video", "a"), Say("info"), Init0("audio", "a")>>
Pair == <<Media0("video", "a"), Media0("audio", "a")>>

\* A finished playlist, and a list whose codec changes on the way.
Vod    == Stream("static", <<Say("hls-vod")>> \o Both \o Pair \o Pair \o Pair \o <<Say("complete")>>)
Change == Stream("static", <<Init0("video", "a"), Media0("video", "a"),
                             Init0("video", "b"), Media0("video", "b"), Say("complete")>>)
\* A live playlist with an audio codec the browser lacks, and a continuous stream
\* whose audio is decoded in software: it comes late, and starts after the video.
Mute   == Stream("static", <<Say("hls-live"), Init0("video", "a"), Init0("audio", "x")>> \o Pair)
Late   == Stream("live", <<Init0("video", "a"), Media0("video", "a"), Media0("video", "a"), Pcm(1),
                           Media0("video", "a"), Pcm(2)>>)

\* A stream whose PCM stays away for long: with Loads <- Gapped, MinBackward = 0 and
\* PENDING_REFILL_WINDOW = 1 the chain is left behind, and NeverStranded is violated.
Gap    == Stream("live", <<Init0("video", "a"), Media0("video", "a"), Media0("video", "a"), Pcm(0),
                           Media0("video", "a"), Pcm(1), Pcm(2)>>)
NeverStranded == ~(Audible /\ RanDry /\ pcm.cursor < pcm.from)

ThenMute == <<{Vod, Change, Late}, {Mute}>>
Software == <<{Late}>>
Gapped   == <<{Gap}>>

\* Like the demuxer's, these streams have the init segments of all their tracks first.
ASSUME StreamsAreLed == TracksFirst
=============================================================================
