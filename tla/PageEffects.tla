---------------------------- MODULE PageEffects ----------------------------
(***************************************************************************)
(* Three components of the page with timers, frames or promises that may   *)
(* outlive them: the copy buttons (copy-button.tsx and the one of the docs *)
(* pages), the cold-start banner and smooth scrolling.                     *)
(***************************************************************************)
EXTENDS Naturals

CONSTANTS MaxClicks,    \* a bound: copies under way at once
          MaxToggles    \* a bound: changes of prefers-reduced-motion

VARIABLES writes, copied, timers, copyGone,   \* a copy button
          left,         \* a copy was under way when it was unmounted
          probes, warm, bannerGone,           \* the banner
          reduced, seenReduced,               \* the preference, and as last rendered
          lenis,        \* the instance there is, 0 for none
          frames,       \* instances whose tick is requested
          toggles, deadTick

copyVars == <<writes, copied, timers, copyGone, left>>
bannerVars == <<probes, warm, bannerGone>>
scrollVars == <<reduced, seenReduced, lenis, frames, toggles, deadTick>>
effectVars == <<copyVars, bannerVars, scrollVars>>

EffectsInit ==
  /\ writes = 0 /\ copied = FALSE /\ timers = 0 /\ copyGone = FALSE /\ left = FALSE
  /\ probes \in {{}, {"gateway"}, {"gateway", "verifier"}} /\ warm = (probes = {})
  /\ bannerGone = FALSE
  /\ reduced \in BOOLEAN
  /\ seenReduced = FALSE /\ lenis = 1 /\ frames = {1}   \* the server's snapshot comes first
  /\ toggles = 0 /\ deadTick = FALSE
-----------------------------------------------------------------------------
\* onClick of a copy button, up to the clipboard's answer.
CopyClick ==
  /\ ~copyGone /\ writes < MaxClicks
  /\ writes' = writes + 1
  /\ UNCHANGED <<copied, timers, copyGone, left>>

CopyBlocked ==
  /\ writes > 0 /\ writes' = writes - 1
  /\ UNCHANGED <<copied, timers, copyGone, left>>

\* The rest of onClick: the timer before is cleared and another set, whether or not
\* the button is still there.
CopyWritten ==
  /\ writes > 0 /\ writes' = writes - 1
  /\ copied' = (copied \/ ~copyGone)
  /\ timers' = 1
  /\ UNCHANGED <<copyGone, left>>

CopyTimer ==
  /\ timers > 0 /\ timers' = timers - 1
  /\ copied' = FALSE
  /\ UNCHANGED <<writes, copyGone, left>>

\* The cleanup of the button's effect.
CopyUnmount ==
  /\ ~copyGone /\ copyGone' = TRUE
  /\ timers' = 0 /\ copied' = FALSE
  /\ left' = (writes > 0)
  /\ UNCHANGED writes

CopyNext == CopyClick \/ CopyBlocked \/ CopyWritten \/ CopyTimer \/ CopyUnmount
-----------------------------------------------------------------------------
\* A warm-up probe answers, fails or is aborted; allSettled waits for all of them.
ProbeSettles ==
  \E p \in probes :
    /\ probes' = probes \ {p}
    /\ warm' = (warm \/ (probes' = {} /\ ~bannerGone))
    /\ UNCHANGED bannerGone

BannerUnmount == ~bannerGone /\ bannerGone' = TRUE /\ UNCHANGED <<probes, warm>>

BannerNext == ProbeSettles \/ BannerUnmount
-----------------------------------------------------------------------------
\* The user changes the system's preference.
ToggleMotion ==
  /\ toggles < MaxToggles /\ toggles' = toggles + 1
  /\ reduced' = ~reduced
  /\ UNCHANGED <<seenReduced, lenis, frames, deadTick>>

\* Mutant: the cleanup cancels nothing.
ScrollEffectUncancelled ==
  /\ seenReduced # reduced /\ seenReduced' = reduced
  /\ IF reduced THEN lenis' = 0 /\ UNCHANGED frames
     ELSE lenis' = toggles + 2 /\ frames' = frames \cup {toggles + 2}
  /\ UNCHANGED <<reduced, toggles, deadTick>>

\* SmoothScroll renders the new preference: the effect's cleanup cancels the frame
\* that is requested and destroys the instance; the effect makes another.
ScrollEffect ==
  /\ seenReduced # reduced /\ seenReduced' = reduced
  /\ IF reduced THEN lenis' = 0 /\ frames' = frames \ {lenis}
     ELSE lenis' = toggles + 2 /\ frames' = (frames \ {lenis}) \cup {toggles + 2}
  /\ UNCHANGED <<reduced, toggles, deadTick>>

\* tick: the instance's raf, and the next frame.
ScrollTick ==
  \E n \in frames :
    /\ deadTick' = (deadTick \/ n # lenis)
    /\ UNCHANGED <<reduced, seenReduced, lenis, frames, toggles>>

ScrollNext == ToggleMotion \/ ScrollEffect \/ ScrollTick
-----------------------------------------------------------------------------
EffectsNext ==
  \/ CopyNext /\ UNCHANGED <<bannerVars, scrollVars>>
  \/ BannerNext /\ UNCHANGED <<copyVars, scrollVars>>
  \/ ScrollNext /\ UNCHANGED <<copyVars, bannerVars>>

EffectsSpec == EffectsInit /\ [][EffectsNext]_effectVars

\* Timers fire and probes settle.
EffectsFairness ==
  /\ WF_effectVars(CopyTimer /\ UNCHANGED <<bannerVars, scrollVars>>)
  /\ WF_effectVars(ProbeSettles /\ UNCHANGED <<copyVars, scrollVars>>)
-----------------------------------------------------------------------------
(* What the components promise.                                            *)

\* What a component has started belongs to the component as it is now.  "Copied" is
\* shown on the one timer of the last copy, which outlives its button only where a
\* copy was under way when it was unmounted.  "toggling it via OS Accessibility tears
\* down the instance immediately without a refresh": however often it is toggled, no
\* frame of an instance that was destroyed is run, and once rendered the preference
\* decides whether there is an instance.
EffectsAreOwned ==
  /\ timers <= 1 /\ (copied => timers = 1)
  /\ copyGone /\ timers > 0 => left
  /\ ~deadTick /\ (seenReduced <=> frames = {}) /\ frames \subseteq {lenis}

\* The banner waits for its probes to settle, whatever they settle to.
BannerWaits == ~warm /\ ~bannerGone
=============================================================================
