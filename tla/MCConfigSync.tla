---------------------------- MODULE MCConfigSync ----------------------------
\* Small instance of ConfigSync for TLC.
EXTENDS ConfigSync

CONSTANTS p, q

\* No profile; p a T-BC; p no longer one; p and a second profile.
MCVersions ==
    {Content({}, {}), Content({p}, {p}), Content({p}, {}), Content({p, q}, {q})}
=============================================================================
