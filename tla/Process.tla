------------------------------ MODULE Process ------------------------------
(***************************************************************************)
(* android.os.Process.setThreadPriority(int), src/core/jni/               *)
(* android_os_Process.cpp.  The method is registered as a static native   *)
(* "(I)V", so the runtime calls it as f(JNIEnv*, jclass, jint); the C     *)
(* function is declared setThreadPriority(jint priority), so priority is  *)
(* read from where the JNIEnv* is passed.  That mismatch is undefined     *)
(* behaviour; what the build does is read the low word of the calling     *)
(* thread's JNIEnv pointer, modelled as a choice among EnvWords.           *)
(***************************************************************************)
EXTENDS Integers

CONSTANTS
    Priorities,   \* priorities managed code passes
    EnvWords      \* low 32 bits of a thread's JNIEnv pointer

ASSUME Priorities \subseteq Int /\ EnvWords \subseteq Int

VARIABLES
    asked,        \* the priority the last managed call passed
    passed        \* the prio argument the last setpriority call received

vars == <<asked, passed>>

\* The jint parameter of the C function as the callee sees it.
PriorityParam(p) == EnvWords

\* setThreadPriority(priority): setpriority(PRIO_DARWIN_THREAD, 0, priority);
\* the result is dropped.
setThreadPriority(p) ==
    /\ asked' = p
    /\ passed' \in PriorityParam(p)

Init ==
    /\ asked = 0
    /\ passed = 0

Next == \E p \in Priorities : setThreadPriority(p)

Spec == Init /\ [][Next]_vars

\* The priority managed code asks for is the one the thread priority call
\* gets (spec section 4.4: "set the calling thread's OS scheduling priority
\* to a caller-supplied value").
PriorityForwarded == passed = asked
=============================================================================
