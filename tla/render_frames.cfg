SPECIFICATION RenderSpec
CONSTANTS
    Samples = {2, 40}
    Window = 3
    Places <- TwoPlaces
    Sites <- SomeSites
    Turns <- SomeTurns
    Back = 2
    Lift = 3
    Ahead = 2
    Norm = 5
    Near = 1
    Far = 9
    FocalX = 1
    FocalY = 2
    ShipRadius = 2
    BulletRadius = 1
    MaxObjects = 2
INVARIANTS PercentilesOrdered CulledIsInvisible CountersAddUp
PROPERTIES SlidesOver RollKeepsControls
